---- MODULE Spec2Model ----
(***************************************************************************)
(* Model of the reddit-ideas scanner: the run controller                   *)
(* (reddit_ideas/pipeline.py), the run ledger and the posts / ideas tables *)
(* (reddit_ideas/storage.py), the post source                              *)
(* (reddit_ideas/reddit_client.py), the notifier                           *)
(* (reddit_ideas/notifiers.py), the heuristic extractor                    *)
(* (reddit_ideas/extractor.py) and the LLM enrichment merger               *)
(* (reddit_ideas/llm_assessor.py).                                         *)
(*                                                                         *)
(* Time is counted in ticks.  A post is a record of its identifier, its    *)
(* forum, its creation time and the heuristic score its text earns.        *)
(***************************************************************************)
EXTENDS Integers, Sequences, FiniteSets, TLC

VARIABLES
    clock,        \* wall clock (datetime.now), non-decreasing
    source,       \* posts that exist at the post source
    run_logs,     \* table run_logs: row i has run_id i
    posts_tbl,    \* table posts, keyed by post_id
    ideas_tbl,    \* table ideas, keyed by post_id
    files,        \* artifacts in output_dir, by file name
    pc,           \* position of the run_once invocation in progress
    local,        \* local variables of the run_once invocation
    exc,          \* exception in flight inside the try block
    calls,        \* fetch calls made by the invocation (forum, since, max)
    sent,         \* channels that delivered a message in the invocation
    result,       \* outcome of the last invocation: RunResult or exception
    snap,         \* the store and output_dir as they were at invocation start
    faults,       \* failures injected so far (fetch, store, report, notifier)
    e_cfg,        \* enrich: config.gemini (absent, or enabled / max_candidates)
    e_orig,       \* enrich: the ideas argument as the caller passed it
    e_ideas,      \* enrich: the idea objects, by position in the argument
    e_posts,      \* enrich: identifiers of the posts argument (post_by_id)
    e_sorted,     \* enrich: the list sorted_ideas, as positions in the argument
    e_pc,         \* enrich: position inside enrich_ideas_with_gemini
    e_idx,        \* enrich: index of the loop over target_ideas
    e_attempt,    \* enrich: attempt number inside _generate_content
    e_log,        \* enrich: requests, pauses and outcomes, in order
    e_result,     \* enrich: what the call handed to its caller
    s_n,          \* store: number of Storage calls made by the caller
    s_call,       \* store: the last Storage call, with what it returned
    s_posts,      \* store: per post_id, the last post record handed over
    s_ideas,      \* store: per post_id, the last idea record handed over
    client,       \* client: one fetch_new_posts_since call, step by step
    runs,         \* race: two run_once invocations on one store, by process
    summ          \* summary: one derive_problem_summary call

pvars == <<clock, source, run_logs, posts_tbl, ideas_tbl, files,
           pc, local, exc, calls, sent, result, snap, faults>>
evars == <<e_cfg, e_orig, e_ideas, e_posts, e_sorted, e_pc, e_idx, e_attempt,
           e_log, e_result>>
svars == <<s_n, s_call, s_posts, s_ideas>>
vars == <<clock, source, run_logs, posts_tbl, ideas_tbl, files,
          pc, local, exc, calls, sent, result, snap, faults,
          e_cfg, e_orig, e_ideas, e_posts, e_sorted, e_pc, e_idx, e_attempt,
          e_log, e_result, s_n, s_call, s_posts, s_ideas, client, runs,
          summ>>

----------------------------------------------------------------------------
\* Bounds of the model.

MaxClock == 4          \* last tick of the wall clock
MaxRuns == 3           \* validated run_once invocations
MaxSourcePosts == 1    \* posts the source ever lists
MaxFaults == 1         \* failures injected in one behaviour
TicksPerHour == 1      \* ticks in one hour (60 * 60 seconds in the code)
TicksPerDay == 1       \* ticks in one UTC calendar day

\* Configuration (AppConfig).
lookback_hours == 2
max_posts_per_subreddit == 2
min_score == 2
subreddits == <<"r1", "r2">>

\* build_notifier: the channels of a configuration with smtp and telegram.
channels == <<"smtp", "telegram">>

Scores == {1, 3}
PeriodInputs == {"daily", "weekly", " Daily", "monthly"}

None == -1

Max(a, b) == IF a >= b THEN a ELSE b
Min(a, b) == IF a <= b THEN a ELSE b

SeqToSet(s) == {s[i] : i \in DOMAIN s}

----------------------------------------------------------------------------
\* storage.py: the run ledger.

EmptyMessage == [kind |-> "empty"]

\* INSERT OR REPLACE with the identifier of the newest row: the new row
\* takes the place of the last one.
start_run_replaces_last(logs, period, run_day_utc, run_started_utc) ==
    SubSeq(logs, 1, Len(logs) - 1)
       \o <<[period |-> period,
             run_day_utc |-> run_day_utc,
             run_started_utc |-> run_started_utc,
             run_finished_utc |-> None,
             status |-> "started",
             fetched_posts |-> 0,
             extracted_ideas |-> 0,
             window_ideas |-> 0,
             email_sent |-> FALSE,
             message |-> EmptyMessage]>>

start_run(logs, period, run_day_utc, run_started_utc) ==
    Append(logs, [period |-> period,
                  run_day_utc |-> run_day_utc,
                  run_started_utc |-> run_started_utc,
                  run_finished_utc |-> None,
                  status |-> "started",
                  fetched_posts |-> 0,
                  extracted_ideas |-> 0,
                  window_ideas |-> 0,
                  email_sent |-> FALSE,
                  message |-> EmptyMessage])

\* The UPDATE has lost its WHERE clause: every row is rewritten.
finish_run_no_where(logs, run_id, status, run_finished_utc, fetched_posts, extracted_ideas, window_ideas, email_sent, message) ==
    [i \in DOMAIN logs |->
        [logs[i] EXCEPT !.run_finished_utc = run_finished_utc,
                        !.status = status,
                        !.fetched_posts = fetched_posts,
                        !.extracted_ideas = extracted_ideas,
                        !.window_ideas = window_ideas,
                        !.email_sent = email_sent,
                        !.message = message]]

finish_run(logs, run_id, status, run_finished_utc, fetched_posts, extracted_ideas, window_ideas, email_sent, message) ==
    [i \in DOMAIN logs |->
        IF i = run_id
        THEN [logs[i] EXCEPT !.run_finished_utc = run_finished_utc,
                             !.status = status,
                             !.fetched_posts = fetched_posts,
                             !.extracted_ideas = extracted_ideas,
                             !.window_ideas = window_ideas,
                             !.email_sent = email_sent,
                             !.message = message]
        ELSE logs[i]]

\* The status literal is misspelt, so no row ever matches.
has_successful_run_on_day_any_status(logs, period, run_day_utc) ==
    \E i \in DOMAIN logs :
        /\ logs[i].period = period
        /\ logs[i].run_day_utc = run_day_utc

has_successful_run_on_day_misspelt(logs, period, run_day_utc) ==
    \E i \in DOMAIN logs :
        /\ logs[i].period = period
        /\ logs[i].run_day_utc = run_day_utc
        /\ logs[i].status = "SUCCESS"

has_successful_run_on_day(logs, period, run_day_utc) ==
    \E i \in DOMAIN logs :
        /\ logs[i].period = period
        /\ logs[i].run_day_utc = run_day_utc
        /\ logs[i].status = "success"

\* ORDER BY run_finished_utc DESC, run_started_utc DESC
RunOrderGeq(a, b) ==
    \/ a.run_finished_utc > b.run_finished_utc
    \/ /\ a.run_finished_utc = b.run_finished_utc
       /\ a.run_started_utc >= b.run_started_utc

NoRun == [run_id |-> 0]

\* The latest closed row of the period, whatever its status.
get_latest_successful_run_any_status(logs, period) ==
    LET cand == {i \in DOMAIN logs :
                    logs[i].period = period /\ logs[i].status # "started"}
    IN  IF cand = {} THEN NoRun
        ELSE LET id == CHOOSE i \in cand :
                          \A j \in cand : RunOrderGeq(logs[i], logs[j])
                 fin == logs[id].run_finished_utc
             IN  [run_id |-> id,
                  period |-> logs[id].period,
                  run_day_utc |-> logs[id].run_day_utc,
                  run_started_utc |-> logs[id].run_started_utc,
                  run_finished_utc |->
                      IF fin # None /\ fin # 0 THEN fin ELSE None,
                  status |-> logs[id].status]

\* The row is rebuilt as a RunLog; a finish time that is NULL or 0 reads
\* back as None ("... if row[...] else None").
get_latest_successful_run(logs, period) ==
    LET cand == {i \in DOMAIN logs :
                    logs[i].period = period /\ logs[i].status = "success"}
    IN  IF cand = {} THEN NoRun
        ELSE LET id == CHOOSE i \in cand :
                          \A j \in cand : RunOrderGeq(logs[i], logs[j])
                 fin == logs[id].run_finished_utc
             IN  [run_id |-> id,
                  period |-> logs[id].period,
                  run_day_utc |-> logs[id].run_day_utc,
                  run_started_utc |-> logs[id].run_started_utc,
                  run_finished_utc |->
                      IF fin # None /\ fin # 0 THEN fin ELSE None,
                  status |-> logs[id].status]

----------------------------------------------------------------------------
\* storage.py: the posts and ideas tables (INSERT ... ON CONFLICT DO UPDATE).

\* On conflict the score of the new record is added to the stored one.
RECURSIVE upsert_posts_accumulates(_, _, _)
upsert_posts_accumulates(tbl, posts, fetched_utc) ==
    IF posts = <<>> THEN tbl
    ELSE LET p == Head(posts)
             row == [post_id |-> p.post_id,
                     subreddit |-> p.subreddit,
                     created_utc |-> p.created_utc,
                     score |-> IF p.post_id \in DOMAIN tbl
                               THEN tbl[p.post_id].score + p.score
                               ELSE p.score,
                     fetched_utc |-> fetched_utc]
             next == [k \in DOMAIN tbl \cup {p.post_id} |->
                         IF k = p.post_id THEN row ELSE tbl[k]]
         IN  upsert_posts_accumulates(next, Tail(posts), fetched_utc)

RECURSIVE upsert_posts(_, _, _)
upsert_posts(tbl, posts, fetched_utc) ==
    IF posts = <<>> THEN tbl
    ELSE LET p == Head(posts)
             row == [post_id |-> p.post_id,
                     subreddit |-> p.subreddit,
                     created_utc |-> p.created_utc,
                     score |-> p.score,
                     fetched_utc |-> fetched_utc]
             next == [k \in DOMAIN tbl \cup {p.post_id} |->
                         IF k = p.post_id THEN row ELSE tbl[k]]
         IN  upsert_posts(next, Tail(posts), fetched_utc)

\* The characters of a tag that matter to the TEXT column reason_tags: the
\* separator "," and the maximal runs without a separator.
Chars(tag) ==
    IF tag = "" THEN <<>>
    ELSE IF tag = "a,b" THEN <<"a", ",", "b">>
    ELSE <<tag>>

\* ",".join(idea.reason_tags)
RECURSIVE join(_)
join(tags) ==
    IF tags = <<>> THEN <<>>
    ELSE IF Len(tags) = 1 THEN Chars(tags[1])
    ELSE Chars(Head(tags)) \o <<",">> \o join(Tail(tags))

\* str.split(","): the pieces between separators, empty pieces included
RECURSIVE SplitFrom(_, _)
SplitFrom(text, piece) ==
    IF text = <<>> THEN <<piece>>
    ELSE IF Head(text) = "," THEN <<piece>> \o SplitFrom(Tail(text), <<>>)
    ELSE SplitFrom(Tail(text), piece \o <<Head(text)>>)

split(text) == SplitFrom(text, <<>>)

\* [tag for tag in row["reason_tags"].split(",") if tag]
RECURSIVE NonEmptyTags(_)
NonEmptyTags(pieces) ==
    IF pieces = <<>> THEN <<>>
    ELSE IF Head(pieces) = <<>> THEN NonEmptyTags(Tail(pieces))
    ELSE <<Head(pieces)[1]>> \o NonEmptyTags(Tail(pieces))

\* The LLM columns keep their stored value when the new record has none.
RECURSIVE upsert_ideas_keeps_llm(_, _, _)
upsert_ideas_keeps_llm(tbl, ideas, extracted_utc) ==
    IF ideas = <<>> THEN tbl
    ELSE LET d == Head(ideas)
             old == IF d.post_id \in DOMAIN tbl THEN tbl[d.post_id]
                    ELSE [llm_profit_score |-> None,
                          llm_confidence |-> None]
             row == [post_id |-> d.post_id,
                     subreddit |-> d.subreddit,
                     relevance_score |-> d.relevance_score,
                     reason_tags |-> join(d.reason_tags),
                     created_utc |-> d.created_utc,
                     llm_profit_score |->
                         IF d.llm_profit_score = None
                         THEN old.llm_profit_score ELSE d.llm_profit_score,
                     llm_confidence |->
                         IF d.llm_confidence = None
                         THEN old.llm_confidence ELSE d.llm_confidence,
                     extracted_utc |-> extracted_utc]
             next == [k \in DOMAIN tbl \cup {d.post_id} |->
                         IF k = d.post_id THEN row ELSE tbl[k]]
         IN  upsert_ideas_keeps_llm(next, Tail(ideas), extracted_utc)

RECURSIVE upsert_ideas(_, _, _)
upsert_ideas(tbl, ideas, extracted_utc) ==
    IF ideas = <<>> THEN tbl
    ELSE LET d == Head(ideas)
             row == [post_id |-> d.post_id,
                     subreddit |-> d.subreddit,
                     relevance_score |-> d.relevance_score,
                     reason_tags |-> join(d.reason_tags),
                     created_utc |-> d.created_utc,
                     llm_profit_score |-> d.llm_profit_score,
                     llm_confidence |-> d.llm_confidence,
                     extracted_utc |-> extracted_utc]
             next == [k \in DOMAIN tbl \cup {d.post_id} |->
                         IF k = d.post_id THEN row ELSE tbl[k]]
         IN  upsert_ideas(next, Tail(ideas), extracted_utc)

\* The orders in which the engine may meet the rows of a table: SQL leaves
\* the order of rows that tie on every ORDER BY term unspecified.
ScanOrders(tbl) ==
    {scan \in [1..Cardinality(DOMAIN tbl) -> DOMAIN tbl] :
        \A i, j \in DOMAIN scan : i # j => scan[i] # scan[j]}

\* WHERE created_utc >= ?
RECURSIVE RowsSince(_, _, _)
RowsSince(tbl, scan, created_utc_floor) ==
    IF scan = <<>> THEN <<>>
    ELSE IF tbl[Head(scan)].created_utc >= created_utc_floor
         THEN <<tbl[Head(scan)]>>
                 \o RowsSince(tbl, Tail(scan), created_utc_floor)
         ELSE RowsSince(tbl, Tail(scan), created_utc_floor)

\* Equal scores are ordered by creation time ascending.
OrderedBefore_oldest_first(a, b) ==
    \/ a.relevance_score > b.relevance_score
    \/ /\ a.relevance_score = b.relevance_score
       /\ a.created_utc < b.created_utc

\* ORDER BY relevance_score DESC, created_utc DESC
OrderedBefore(a, b) ==
    \/ a.relevance_score > b.relevance_score
    \/ /\ a.relevance_score = b.relevance_score
       /\ a.created_utc > b.created_utc

RECURSIVE InsertRow(_, _)
InsertRow(sorted, row) ==
    IF sorted = <<>> THEN <<row>>
    ELSE IF OrderedBefore(row, Head(sorted)) THEN <<row>> \o sorted
    ELSE <<Head(sorted)>> \o InsertRow(Tail(sorted), row)

RECURSIVE OrderRows(_)
OrderRows(rows) ==
    IF rows = <<>> THEN <<>>
    ELSE InsertRow(OrderRows(SubSeq(rows, 1, Len(rows) - 1)),
                   rows[Len(rows)])

\* One fetched row as an IdeaCandidate (lines 222-248).
IdeaOfRow(row) ==
    [post_id |-> row.post_id,
     subreddit |-> row.subreddit,
     relevance_score |-> row.relevance_score,
     reason_tags |-> NonEmptyTags(split(row.reason_tags)),
     created_utc |-> row.created_utc,
     llm_profit_score |-> row.llm_profit_score,
     llm_confidence |-> row.llm_confidence]

get_ideas_since(tbl, scan, created_utc_floor) ==
    LET rows == OrderRows(RowsSince(tbl, scan, created_utc_floor))
    IN  [i \in DOMAIN rows |-> IdeaOfRow(rows[i])]

----------------------------------------------------------------------------
\* reddit_client.py: the listing of a forum, newest first, and the fetch.

RECURSIVE NewestFirst(_)
NewestFirst(S) ==
    IF S = {} THEN <<>>
    ELSE LET m == CHOOSE p \in S : \A q \in S : q.created_utc <= p.created_utc
         IN  <<m>> \o NewestFirst(S \ {m})

Listing(src, subreddit) ==
    NewestFirst({p \in src : p.subreddit = subreddit})

RECURSIVE TakeSince(_, _, _)
TakeSince(listing, since_utc, room) ==
    IF listing = <<>> \/ room <= 0 THEN <<>>
    ELSE IF Head(listing).created_utc < since_utc THEN <<>>
    ELSE <<Head(listing)>> \o TakeSince(Tail(listing), since_utc, room - 1)

fetch_new_posts_since(listing, since_utc, max_posts) ==
    TakeSince(listing, since_utc, Max(max_posts, 1))

----------------------------------------------------------------------------
\* extractor.py

\* A heuristic score is counted in quarters of a thousandth, a relevance
\* score in thousandths.
ScorePerMilli == 4

score_post(post) == post.score

\* round(): n / d to the nearest integer, halves to the even neighbour.
RoundHalfEven(n, d) ==
    LET q == n \div d
        r == n % d
    IN  IF 2 * r < d THEN q
        ELSE IF 2 * r > d THEN q + 1
        ELSE IF q % 2 = 0 THEN q ELSE q + 1

RECURSIVE FilterIdeas(_)
FilterIdeas(posts) ==
    IF posts = <<>> THEN <<>>
    ELSE LET p == Head(posts)
         IN  IF score_post(p) < min_score THEN FilterIdeas(Tail(posts))
             ELSE <<[post_id |-> p.post_id,
                     subreddit |-> p.subreddit,
                     relevance_score |->
                         RoundHalfEven(score_post(p), ScorePerMilli),
                     reason_tags |-> <<"pain_signal">>,
                     created_utc |-> p.created_utc,
                     llm_profit_score |-> None,
                     llm_confidence |-> None]>> \o FilterIdeas(Tail(posts))

\* An idea is placed before the ideas of equal score.
RECURSIVE InsertByScore_before_equals(_, _)
InsertByScore_before_equals(sorted, d) ==
    IF sorted = <<>> THEN <<d>>
    ELSE IF Head(sorted).relevance_score > d.relevance_score
         THEN <<Head(sorted)>> \o InsertByScore_before_equals(Tail(sorted), d)
         ELSE <<d>> \o sorted

\* list.sort(key=relevance_score, reverse=True): stable, descending
RECURSIVE InsertByScore(_, _)
InsertByScore(sorted, d) ==
    IF sorted = <<>> THEN <<d>>
    ELSE IF Head(sorted).relevance_score >= d.relevance_score
         THEN <<Head(sorted)>> \o InsertByScore(Tail(sorted), d)
         ELSE <<d>> \o sorted

RECURSIVE SortByScore(_)
SortByScore(ideas) ==
    IF ideas = <<>> THEN <<>>
    ELSE InsertByScore(SortByScore(SubSeq(ideas, 1, Len(ideas) - 1)),
                       ideas[Len(ideas)])

extract_ideas(posts) == SortByScore(FilterIdeas(posts))

----------------------------------------------------------------------------
\* pipeline.py: run_once.

\* period.lower().strip()
NormalizePeriod(p) == IF p = " Daily" THEN "daily" ELSE p

\* runtime.strftime("%Y-%m-%d"): the UTC calendar day of a timestamp
DayOf(t) == t \div TicksPerDay

lookback_seconds == Max(lookback_hours, 1) * TicksPerHour

NoPath == <<>>
CsvPath(period, date_stamp) == <<"ideas", period, date_stamp>>
ReportPath(period, date_stamp) == <<"report", period, date_stamp>>

SkippedMessage(period, run_day_utc) ==
    [kind |-> "skipped", period |-> period, day |-> run_day_utc]
SuccessMessage(lookback_floor) ==
    [kind |-> "success", floor |-> lookback_floor]
ErrorMessage(e) == [kind |-> "error", text |-> e]

NoExc == "none"
FetchError == "RuntimeError: Failed to fetch URL"
StorageError == "OperationalError: database is locked"
ReportError == "OSError: write_text_report"
NotifyError == "RuntimeError: Telegram API returned non-ok response"
PeriodError == "ValueError: period must be either 'daily' or 'weekly'"

NoLocal ==
    [period |-> "", started_utc |-> 0, run_day_utc |-> 0, run_id |-> 0,
     lookback_floor |-> 0, forum |-> 0, posts |-> <<>>, ideas |-> <<>>,
     window_ideas |-> <<>>, chan |-> 0, email_sent |-> FALSE]

NoResult == [kind |-> "none"]
Raised(e) == [kind |-> "raised", error |-> e]
RunResult(status, fetched_posts, extracted_ideas, window_ideas, started_utc, finished_utc, csv_path, report_path, email_sent, message) ==
    [kind |-> "returned",
     status |-> status,
     fetched_posts |-> fetched_posts,
     extracted_ideas |-> extracted_ideas,
     window_ideas |-> window_ideas,
     started_utc |-> started_utc,
     finished_utc |-> finished_utc,
     csv_path |-> csv_path,
     report_path |-> report_path,
     email_sent |-> email_sent,
     message |-> message]

\* int((now or datetime.now(tz=UTC)).timestamp()) with now = None, the way
\* the scheduler invokes run_once: the wall clock is read again.
NowUtc == clock

NoSnapshot ==
    [run_logs |-> <<>>, posts_tbl |-> <<>>, ideas_tbl |-> <<>>, files |-> {}]
StoreSnapshot ==
    [run_logs |-> run_logs, posts_tbl |-> posts_tbl,
     ideas_tbl |-> ideas_tbl, files |-> files]

\* The checkpoint is taken whenever a success row exists, however old.
LookbackFloor_any_age(logs, period, started_utc) ==
    LET latest_success == get_latest_successful_run(logs, period)
        default_lookback_floor == started_utc - lookback_seconds
    IN  IF latest_success.run_id # 0
           /\ latest_success.run_finished_utc # None
        THEN latest_success.run_finished_utc
        ELSE default_lookback_floor

\* The effective fetch floor (lines 77-82).
LookbackFloor(logs, period, started_utc) ==
    LET latest_success == get_latest_successful_run(logs, period)
        default_lookback_floor == started_utc - lookback_seconds
    IN  IF latest_success.run_id # 0
           /\ latest_success.run_finished_utc # None
           /\ started_utc - latest_success.run_finished_utc
                 <= lookback_seconds
        THEN latest_success.run_finished_utc
        ELSE default_lookback_floor

\* The forum a newly published post belongs to.
ForumOf(post_id) == subreddits[((post_id - 1) % Len(subreddits)) + 1]

UnchangedStore == UNCHANGED <<run_logs, posts_tbl, ideas_tbl, files>>
UnchangedWorld == UNCHANGED <<clock, source, faults>>

\* A failure of a collaborator is injected.
InjectFault ==
    /\ faults < MaxFaults
    /\ faults' = faults + 1
    /\ UNCHANGED <<clock, source>>

\* Between invocations, and at the positions from which an invocation goes
\* on to read the wall clock; elsewhere the passing of time changes nothing
\* the invocation can see, so the clock advances at these positions only.
ClockRead == {"idle", "same_day_check", "finish", "except"}

\* Between invocations, before the fetch of a forum, and after the fetches
\* while the invocation is still running.
SourceRead == {"idle", "fetch", "finish"}

\* Time passes.
Tick ==
    /\ clock < MaxClock
    /\ pc \in ClockRead
    /\ clock' = clock + 1
    /\ UNCHANGED <<source, run_logs, posts_tbl, ideas_tbl, files,
                   pc, local, exc, calls, sent, result, snap, faults>>
    /\ UNCHANGED <<evars, svars, client, runs, summ>>

\* Somebody publishes a post; it carries the time of publication, which is
\* later than every fetch made so far.
PostCreated(score) ==
    /\ clock < MaxClock
    /\ pc \in SourceRead
    /\ Cardinality(source) < MaxSourcePosts
    /\ clock' = clock + 1
    /\ source' = source \cup {[post_id |-> Cardinality(source) + 1,
                               subreddit |-> ForumOf(Cardinality(source) + 1),
                               created_utc |-> clock + 1,
                               score |-> score]}
    /\ UNCHANGED <<run_logs, posts_tbl, ideas_tbl, files,
                   pc, local, exc, calls, sent, result, snap, faults>>
    /\ UNCHANGED <<evars, svars, client, runs, summ>>

\* The ledger row is inserted before the period is validated.
RejectPeriod_after_start_run(period_in) ==
    /\ pc = "idle"
    /\ Len(run_logs) < MaxRuns
    /\ NormalizePeriod(period_in) \notin {"daily", "weekly"}
    /\ run_logs' = start_run(run_logs, NormalizePeriod(period_in),
                             DayOf(NowUtc), NowUtc)
    /\ result' = Raised(PeriodError)
    /\ snap' = StoreSnapshot
    /\ pc' = "returned"
    /\ UNCHANGED <<local, exc, calls, sent, posts_tbl, ideas_tbl, files>>
    /\ UnchangedWorld
    /\ UNCHANGED <<evars, svars, client, runs, summ>>

\* Lines 36-38: the period is rejected before any effect.
RejectPeriod(period_in) ==
    /\ pc = "idle"
    /\ NormalizePeriod(period_in) \notin {"daily", "weekly"}
    /\ result' = Raised(PeriodError)
    /\ snap' = StoreSnapshot
    /\ pc' = "returned"
    /\ UNCHANGED <<local, exc, calls, sent>>
    /\ UnchangedStore
    /\ UnchangedWorld
    /\ UNCHANGED <<evars, svars, client, runs, summ>>

\* Lines 36-49: validation, the run's times, start_run.
StartRun(period_in) ==
    /\ pc = "idle"
    /\ Len(run_logs) < MaxRuns
    /\ NormalizePeriod(period_in) \in {"daily", "weekly"}
    /\ LET period == NormalizePeriod(period_in)
           started_utc == NowUtc
           run_day_utc == DayOf(NowUtc)
       IN  /\ run_logs' = start_run(run_logs, period, run_day_utc, started_utc)
           /\ local' = [NoLocal EXCEPT !.period = period,
                                       !.started_utc = started_utc,
                                       !.run_day_utc = run_day_utc,
                                       !.run_id = Len(run_logs) + 1]
    /\ pc' = "same_day_check"
    /\ snap' = StoreSnapshot
    /\ UNCHANGED <<exc, calls, sent, result, posts_tbl, ideas_tbl, files>>
    /\ UnchangedWorld
    /\ UNCHANGED <<evars, svars, client, runs, summ>>

\* The skip path returns without closing its ledger row.
SkipSameDay_row_left_open ==
    /\ pc = "same_day_check"
    /\ has_successful_run_on_day(run_logs, local.period, local.run_day_utc)
    /\ result' = RunResult("skipped_same_day", 0, 0, 0,
                           local.started_utc, NowUtc,
                           NoPath, NoPath, FALSE,
                           SkippedMessage(local.period, local.run_day_utc))
    /\ pc' = "returned"
    /\ local' = NoLocal
    /\ UNCHANGED <<exc, calls, sent, snap>>
    /\ UnchangedStore
    /\ UnchangedWorld
    /\ UNCHANGED <<evars, svars, client, runs, summ>>

\* The same-day check sits after the notification step: the skip path has
\* already written its artifacts and called every channel.
SkipSameDay_after_notify ==
    /\ pc = "same_day_check"
    /\ has_successful_run_on_day(run_logs, local.period, local.run_day_utc)
    /\ LET finished_utc == NowUtc
           message == SkippedMessage(local.period, local.run_day_utc)
       IN  /\ run_logs' = finish_run(run_logs, local.run_id,
                                     "skipped_same_day", finished_utc,
                                     0, 0, 0, FALSE, message)
           /\ result' = RunResult("skipped_same_day", 0, 0, 0,
                                  local.started_utc, finished_utc,
                                  NoPath, NoPath, FALSE, message)
    /\ files' = files \cup {CsvPath(local.period, local.started_utc),
                            ReportPath(local.period, local.started_utc)}
    /\ sent' = channels
    /\ pc' = "returned"
    /\ local' = NoLocal
    /\ UNCHANGED <<exc, calls, snap, posts_tbl, ideas_tbl>>
    /\ UnchangedWorld
    /\ UNCHANGED <<evars, svars, client, runs, summ>>

\* Lines 51-75: a success row of this period and day exists.
SkipSameDay ==
    /\ pc = "same_day_check"
    /\ has_successful_run_on_day(run_logs, local.period, local.run_day_utc)
    /\ LET finished_utc == NowUtc
           message == SkippedMessage(local.period, local.run_day_utc)
       IN  /\ run_logs' = finish_run(run_logs, local.run_id,
                                     "skipped_same_day", finished_utc,
                                     0, 0, 0, FALSE, message)
           /\ result' = RunResult("skipped_same_day", 0, 0, 0,
                                  local.started_utc, finished_utc,
                                  NoPath, NoPath, FALSE, message)
    /\ pc' = "returned"
    /\ local' = NoLocal
    /\ UNCHANGED <<exc, calls, sent, snap, posts_tbl, ideas_tbl, files>>
    /\ UnchangedWorld
    /\ UNCHANGED <<evars, svars, client, runs, summ>>

\* Lines 51 and 77-85: no such row; the incremental checkpoint.
Checkpoint ==
    /\ pc = "same_day_check"
    /\ ~has_successful_run_on_day(run_logs, local.period, local.run_day_utc)
    /\ local' = [local EXCEPT
                    !.lookback_floor =
                        LookbackFloor(run_logs, local.period,
                                      local.started_utc),
                    !.forum = 1,
                    !.email_sent = FALSE]
    /\ pc' = IF Len(subreddits) = 0 THEN "persist" ELSE "fetch"
    /\ UNCHANGED <<exc, calls, sent, result, snap>>
    /\ UnchangedStore
    /\ UnchangedWorld
    /\ UNCHANGED <<evars, svars, client, runs, summ>>

FetchCall(l) ==
    [subreddit |-> subreddits[l.forum],
     since_utc |-> l.lookback_floor,
     max_posts |-> max_posts_per_subreddit]

\* Lines 89-95: one iteration of the loop over config.subreddits.
Fetch ==
    /\ pc = "fetch"
    /\ LET fetched == fetch_new_posts_since(
                          Listing(source, subreddits[local.forum]),
                          local.lookback_floor, max_posts_per_subreddit)
       IN  local' = [local EXCEPT !.posts = @ \o fetched,
                                  !.forum = @ + 1]
    /\ calls' = Append(calls, FetchCall(local))
    /\ pc' = IF local.forum = Len(subreddits) THEN "persist" ELSE "fetch"
    /\ UNCHANGED <<exc, sent, result, snap>>
    /\ UnchangedStore
    /\ UnchangedWorld
    /\ UNCHANGED <<evars, svars, client, runs, summ>>

\* The posts fetched from the earlier forums are stored before the error
\* is passed on.
FetchRaises_partial_persist ==
    /\ pc = "fetch"
    /\ calls' = Append(calls, FetchCall(local))
    /\ exc' = FetchError
    /\ pc' = "except"
    /\ posts_tbl' = upsert_posts(posts_tbl, local.posts, local.started_utc)
    /\ UNCHANGED <<local, sent, result, snap, run_logs, ideas_tbl, files>>
    /\ InjectFault
    /\ UNCHANGED <<evars, svars, client, runs, summ>>

\* The post source gives up after its retries.
FetchRaises ==
    /\ pc = "fetch"
    /\ calls' = Append(calls, FetchCall(local))
    /\ exc' = FetchError
    /\ pc' = "except"
    /\ UNCHANGED <<local, sent, result, snap>>
    /\ UnchangedStore
    /\ InjectFault
    /\ UNCHANGED <<evars, svars, client, runs, summ>>

\* The ideas of fetched posts that now score below min_score are removed.
Persist_drops_stale ==
    /\ pc = "persist"
    /\ posts_tbl' = upsert_posts(posts_tbl, local.posts, local.started_utc)
    /\ LET ideas == extract_ideas(local.posts)
           stale == {local.posts[n].post_id : n \in DOMAIN local.posts}
                       \ {ideas[n].post_id : n \in DOMAIN ideas}
           kept == [k \in DOMAIN ideas_tbl \ stale |-> ideas_tbl[k]]
       IN  /\ local' = [local EXCEPT !.ideas = ideas]
           /\ ideas_tbl' = upsert_ideas(kept, ideas, local.started_utc)
    /\ pc' = "report"
    /\ UNCHANGED <<exc, calls, sent, result, snap, run_logs, files>>
    /\ UnchangedWorld
    /\ UNCHANGED <<evars, svars, client, runs, summ>>

\* Lines 97-99: upsert_posts, extract_ideas, upsert_ideas.
Persist ==
    /\ pc = "persist"
    /\ posts_tbl' = upsert_posts(posts_tbl, local.posts, local.started_utc)
    /\ LET ideas == extract_ideas(local.posts)
       IN  /\ local' = [local EXCEPT !.ideas = ideas]
           /\ ideas_tbl' = upsert_ideas(ideas_tbl, ideas, local.started_utc)
    /\ pc' = "report"
    /\ UNCHANGED <<exc, calls, sent, result, snap, run_logs, files>>
    /\ UnchangedWorld
    /\ UNCHANGED <<evars, svars, client, runs, summ>>

\* The ideas are written first; upsert_posts raises after them.
PersistRaises_ideas_first ==
    /\ pc = "persist"
    /\ exc' = StorageError
    /\ ideas_tbl' = upsert_ideas(ideas_tbl, extract_ideas(local.posts),
                                 local.started_utc)
    /\ pc' = "except"
    /\ UNCHANGED <<local, calls, sent, result, snap,
                   run_logs, posts_tbl, files>>
    /\ InjectFault
    /\ UNCHANGED <<evars, svars, client, runs, summ>>

\* upsert_posts raises, or upsert_ideas raises after the posts were written.
PersistRaises ==
    /\ pc = "persist"
    /\ exc' = StorageError
    /\ \E posts_written \in BOOLEAN :
          posts_tbl' = IF posts_written
                       THEN upsert_posts(posts_tbl, local.posts,
                                         local.started_utc)
                       ELSE posts_tbl
    /\ pc' = "except"
    /\ UNCHANGED <<local, calls, sent, result, snap,
                   run_logs, ideas_tbl, files>>
    /\ InjectFault
    /\ UNCHANGED <<evars, svars, client, runs, summ>>

\* The window query uses the default floor, not the run's floor.
Report_default_floor ==
    /\ pc = "report"
    /\ \E scan \in ScanOrders(ideas_tbl) :
          local' = [local EXCEPT
                       !.window_ideas =
                           get_ideas_since(ideas_tbl, scan,
                                           local.started_utc
                                              - lookback_seconds),
                       !.chan = 1]
    /\ files' = files \cup {CsvPath(local.period, local.started_utc),
                            ReportPath(local.period, local.started_utc)}
    /\ pc' = IF channels = <<>> THEN "finish" ELSE "notify"
    /\ UNCHANGED <<exc, calls, sent, result, snap,
                   run_logs, posts_tbl, ideas_tbl>>
    /\ UnchangedWorld
    /\ UNCHANGED <<evars, svars, client, runs, summ>>

\* Lines 101-112: the reporting window and the two artifacts.
Report ==
    /\ pc = "report"
    /\ \E scan \in ScanOrders(ideas_tbl) :
          local' = [local EXCEPT
                       !.window_ideas =
                           get_ideas_since(ideas_tbl, scan,
                                           local.lookback_floor),
                       !.chan = 1]
    /\ files' = files \cup {CsvPath(local.period, local.started_utc),
                            ReportPath(local.period, local.started_utc)}
    /\ pc' = IF channels = <<>> THEN "finish" ELSE "notify"
    /\ UNCHANGED <<exc, calls, sent, result, snap,
                   run_logs, posts_tbl, ideas_tbl>>
    /\ UnchangedWorld
    /\ UNCHANGED <<evars, svars, client, runs, summ>>

\* The window query or the report write raises; the CSV exists already
\* when the report write raises.
ReportRaises ==
    /\ pc = "report"
    /\ \E e \in {StorageError, ReportError} :
          /\ exc' = e
          /\ files' = IF e = ReportError
                      THEN files \cup {CsvPath(local.period,
                                               local.started_utc)}
                      ELSE files
    /\ pc' = "except"
    /\ UNCHANGED <<local, calls, sent, result, snap,
                   run_logs, posts_tbl, ideas_tbl>>
    /\ InjectFault
    /\ UNCHANGED <<evars, svars, client, runs, summ>>

\* Lines 113-125 with CompositeNotifier.send: one channel delivers.
NotifyChannel ==
    /\ pc = "notify"
    /\ sent' = Append(sent, channels[local.chan])
    /\ IF local.chan = Len(channels)
       THEN /\ local' = [local EXCEPT !.email_sent = TRUE]
            /\ pc' = "finish"
       ELSE /\ local' = [local EXCEPT !.chan = @ + 1]
            /\ pc' = "notify"
    /\ UNCHANGED <<exc, calls, result, snap>>
    /\ UnchangedStore
    /\ UnchangedWorld
    /\ UNCHANGED <<evars, svars, client, runs, summ>>

\* CompositeNotifier.send catches the channel's error and goes on.
NotifyChannelRaises_swallowed ==
    /\ pc = "notify"
    /\ IF local.chan = Len(channels)
       THEN /\ local' = [local EXCEPT !.email_sent = TRUE]
            /\ pc' = "finish"
       ELSE /\ local' = [local EXCEPT !.chan = @ + 1]
            /\ pc' = "notify"
    /\ UNCHANGED <<exc, calls, sent, result, snap>>
    /\ UnchangedStore
    /\ InjectFault
    /\ UNCHANGED <<evars, svars, client, runs, summ>>

\* The channel's send raises; CompositeNotifier.send lets it through.
NotifyChannelRaises ==
    /\ pc = "notify"
    /\ exc' = NotifyError
    /\ pc' = "except"
    /\ UNCHANGED <<local, calls, sent, result, snap>>
    /\ UnchangedStore
    /\ InjectFault
    /\ UNCHANGED <<evars, svars, client, runs, summ>>

\* Lines 127-153.
FinishSuccess ==
    /\ pc = "finish"
    /\ LET finished_utc == NowUtc
           message == SuccessMessage(local.lookback_floor)
       IN  /\ run_logs' = finish_run(run_logs, local.run_id, "success",
                                     finished_utc, Len(local.posts),
                                     Len(local.ideas),
                                     Len(local.window_ideas),
                                     local.email_sent, message)
           /\ result' = RunResult("success", Len(local.posts),
                                  Len(local.ideas),
                                  Len(local.window_ideas),
                                  local.started_utc, finished_utc,
                                  CsvPath(local.period, local.started_utc),
                                  ReportPath(local.period, local.started_utc),
                                  local.email_sent, message)
    /\ pc' = "returned"
    /\ local' = NoLocal
    /\ UNCHANGED <<exc, calls, sent, snap, posts_tbl, ideas_tbl, files>>
    /\ UnchangedWorld
    /\ UNCHANGED <<evars, svars, client, runs, summ>>

\* The handler closes the row and returns a result instead of re-raising.
ExceptHandler_swallowed ==
    /\ pc = "except"
    /\ run_logs' = finish_run(run_logs, local.run_id, "failed",
                              NowUtc, 0, 0, 0, FALSE, ErrorMessage(exc))
    /\ result' = RunResult("failed", 0, 0, 0, local.started_utc, NowUtc,
                           NoPath, NoPath, FALSE, ErrorMessage(exc))
    /\ exc' = NoExc
    /\ pc' = "returned"
    /\ local' = NoLocal
    /\ UNCHANGED <<calls, sent, snap, posts_tbl, ideas_tbl, files>>
    /\ UnchangedWorld
    /\ UNCHANGED <<evars, svars, client, runs, summ>>

\* The handler puts the posts and ideas tables back as the run found them.
ExceptHandler_rolls_back ==
    /\ pc = "except"
    /\ run_logs' = finish_run(run_logs, local.run_id, "failed",
                              NowUtc, 0, 0, 0, FALSE, ErrorMessage(exc))
    /\ posts_tbl' = snap.posts_tbl
    /\ ideas_tbl' = snap.ideas_tbl
    /\ result' = Raised(exc)
    /\ exc' = NoExc
    /\ pc' = "returned"
    /\ local' = NoLocal
    /\ UNCHANGED <<calls, sent, snap, files>>
    /\ UnchangedWorld
    /\ UNCHANGED <<evars, svars, client, runs, summ>>

\* Lines 154-167: the handler closes the row 'failed' and re-raises.
ExceptHandler ==
    /\ pc = "except"
    /\ run_logs' = finish_run(run_logs, local.run_id, "failed",
                              NowUtc, 0, 0, 0, FALSE, ErrorMessage(exc))
    /\ result' = Raised(exc)
    /\ exc' = NoExc
    /\ pc' = "returned"
    /\ local' = NoLocal
    /\ UNCHANGED <<calls, sent, snap, posts_tbl, ideas_tbl, files>>
    /\ UnchangedWorld
    /\ UNCHANGED <<evars, svars, client, runs, summ>>

\* The caller has the outcome of the invocation and goes back to waiting
\* for the next trigger.
Resume ==
    /\ pc = "returned"
    /\ pc' = "idle"
    /\ result' = NoResult
    /\ calls' = <<>>
    /\ sent' = <<>>
    /\ snap' = NoSnapshot
    /\ UNCHANGED <<local, exc>>
    /\ UnchangedStore
    /\ UnchangedWorld
    /\ UNCHANGED <<evars, svars, client, runs, summ>>

\* No derive_problem_summary call.
SummaryOff == [pc |-> "off"]

\* An invocation of run_once by one of two processes, not yet made.
NoRace ==
    [pc |-> "idle", period |-> "", started_utc |-> 0, run_day_utc |-> 0,
     run_id |-> 0, lookback_floor |-> 0, raced |-> FALSE]

\* No fetch_new_posts_since call followed step by step.
ClientOff ==
    [pc |-> "off", listing |-> <<>>, since_utc |-> 0, max_posts |-> 0,
     posts |-> <<>>, after |-> 0, page |-> 0, attempt |-> 0, log |-> <<>>,
     result |-> NoResult]

NoCall == [op |-> "none"]

\* No Storage call made from outside the run.
StoreOff ==
    /\ s_n = 0
    /\ s_call = NoCall
    /\ s_posts = <<>>
    /\ s_ideas = <<>>

EnrichOff ==
    /\ e_cfg = [gemini |-> "none"]
    /\ e_orig = <<>>
    /\ e_ideas = <<>>
    /\ e_posts = {}
    /\ e_sorted = <<>>
    /\ e_pc = "off"
    /\ e_idx = 0
    /\ e_attempt = 0
    /\ e_log = <<>>
    /\ e_result = NoResult

Init ==
    /\ clock = 0
    /\ source = {}
    /\ run_logs = <<>>
    /\ posts_tbl = <<>>
    /\ ideas_tbl = <<>>
    /\ files = {}
    /\ pc = "idle"
    /\ local = NoLocal
    /\ exc = NoExc
    /\ calls = <<>>
    /\ sent = <<>>
    /\ result = NoResult
    /\ snap = NoSnapshot
    /\ faults = 0
    /\ EnrichOff
    /\ StoreOff
    /\ client = ClientOff
    /\ runs = <<NoRace, NoRace>>
    /\ summ = SummaryOff

Next ==
    \/ Tick
    \/ \E q \in Scores : PostCreated(q)
    \/ \E p \in PeriodInputs : RejectPeriod(p)
    \/ \E p \in PeriodInputs : StartRun(p)
    \/ SkipSameDay
    \/ Checkpoint
    \/ Fetch
    \/ FetchRaises
    \/ Persist
    \/ PersistRaises
    \/ Report
    \/ ReportRaises
    \/ NotifyChannel
    \/ NotifyChannelRaises
    \/ FinishSuccess
    \/ ExceptHandler
    \/ Resume

Spec == Init /\ [][Next]_vars

----------------------------------------------------------------------------
\* run_once over a source whose posts change: the votes and comments of a
\* listed post, and with them its heuristic score, move between fetches.
\* No collaborator fails here.

\* score_post gives another value for a post the source already lists.
PostRescored(score) ==
    /\ pc \in SourceRead
    /\ \E p \in source :
          /\ p.score # score
          /\ source' = (source \ {p}) \cup {[p EXCEPT !.score = score]}
    /\ UNCHANGED <<clock, run_logs, posts_tbl, ideas_tbl, files,
                   pc, local, exc, calls, sent, result, snap, faults>>
    /\ UNCHANGED <<evars, svars, client, runs, summ>>

NextRescore ==
    \/ Tick
    \/ \E q \in Scores : PostCreated(q)
    \/ \E q \in Scores : PostRescored(q)
    \/ \E p \in PeriodInputs : RejectPeriod(p)
    \/ \E p \in PeriodInputs : StartRun(p)
    \/ SkipSameDay
    \/ Checkpoint
    \/ Fetch
    \/ Persist
    \/ Report
    \/ NotifyChannel
    \/ FinishSuccess
    \/ Resume

SpecRescore == Init /\ [][NextRescore]_vars

----------------------------------------------------------------------------
\* The store's ledger operations fail as well (storage errors): the
\* same-day check and the checkpoint lookup sit before the try block, the
\* terminal writes of the skip path and of the handler are not guarded.

\* A failure while the handler deals with a failure: it is injected on top
\* of the failure that brought the invocation into the handler.
InjectSecondFault ==
    /\ faults <= MaxFaults
    /\ faults' = faults + 1
    /\ UNCHANGED <<clock, source>>

\* Line 51: has_successful_run_on_day raises.
SameDayCheckRaises ==
    /\ pc = "same_day_check"
    /\ result' = Raised(StorageError)
    /\ pc' = "returned"
    /\ local' = NoLocal
    /\ UNCHANGED <<exc, calls, sent, snap>>
    /\ UnchangedStore
    /\ InjectFault
    /\ UNCHANGED <<evars, svars, client, runs, summ>>

\* Line 77: get_latest_successful_run raises.
CheckpointRaises ==
    /\ pc = "same_day_check"
    /\ ~has_successful_run_on_day(run_logs, local.period, local.run_day_utc)
    /\ result' = Raised(StorageError)
    /\ pc' = "returned"
    /\ local' = NoLocal
    /\ UNCHANGED <<exc, calls, sent, snap>>
    /\ UnchangedStore
    /\ InjectFault
    /\ UNCHANGED <<evars, svars, client, runs, summ>>

\* Line 54: finish_run of the skip path raises.
SkipFinishRaises ==
    /\ pc = "same_day_check"
    /\ has_successful_run_on_day(run_logs, local.period, local.run_day_utc)
    /\ result' = Raised(StorageError)
    /\ pc' = "returned"
    /\ local' = NoLocal
    /\ UNCHANGED <<exc, calls, sent, snap>>
    /\ UnchangedStore
    /\ InjectFault
    /\ UNCHANGED <<evars, svars, client, runs, summ>>

\* Line 132: finish_run of the success path raises, inside the try block.
FinishRaises ==
    /\ pc = "finish"
    /\ exc' = StorageError
    /\ pc' = "except"
    /\ UNCHANGED <<local, calls, sent, result, snap>>
    /\ UnchangedStore
    /\ InjectFault
    /\ UNCHANGED <<evars, svars, client, runs, summ>>

\* Line 157: finish_run of the handler raises; that error leaves run_once.
ExceptFinishRaises ==
    /\ pc = "except"
    /\ result' = Raised(StorageError)
    /\ exc' = NoExc
    /\ pc' = "returned"
    /\ local' = NoLocal
    /\ UNCHANGED <<calls, sent, snap>>
    /\ UnchangedStore
    /\ InjectSecondFault
    /\ UNCHANGED <<evars, svars, client, runs, summ>>

NextLedgerFault ==
    \/ Next
    \/ SameDayCheckRaises
    \/ CheckpointRaises
    \/ SkipFinishRaises
    \/ FinishRaises
    \/ ExceptFinishRaises

SpecLedgerFault == Init /\ [][NextLedgerFault]_vars

----------------------------------------------------------------------------
\* The LLM enrichment merger (llm_assessor.py).  Scores are fixed-point:
\* relevance_score and llm_confidence count thousandths, llm_profit_score
\* counts hundredths; a reply carries its profit score in thousandths and
\* its confidence in ten-thousandths, so that the roundings do some work.

MaxIdeas == 3                      \* length of the ideas argument
IdeaScores == {4000, 6000}         \* heuristic scores 4.0 and 6.0
MaxCandidatesInputs == {0, 1, 2}   \* values of gemini.max_candidates

max_retries == 3

\* None in an LLM field; the values of these fields are never negative.
Absent == None

\* An idea as the extractor leaves it: no LLM fields.
IdeaCandidate(post_id, relevance_score) ==
    [post_id |-> post_id,
     relevance_score |-> relevance_score,
     problem_summary |-> "heuristic summary",
     solution_hint |-> "heuristic hint",
     reason_tags |-> <<"pain_signal">>,
     llm_profit_score |-> Absent,
     llm_confidence |-> Absent]

IdeaLists ==
    UNION {{[i \in 1..n |-> IdeaCandidate(i, sc[i])] :
                sc \in [1..n -> IdeaScores]} : n \in 0..MaxIdeas}

GeminiInputs ==
    {[gemini |-> "none"]} \cup
    {[gemini |-> "set", enabled |-> en, max_candidates |-> mc] :
        en \in BOOLEAN, mc \in MaxCandidatesInputs}

\* The tags of the model in the order sorted() gives them.
TagOrder == <<"llm_assessed", "llm_saas", "pain_signal">>
SortedTags(S) == SelectSeq(TagOrder, LAMBDA t : t \in S)

\* What a reply's JSON holds under a key: a number or something float()
\* rejects; a list or something else.
Num(v) == [num |-> TRUE, v |-> v]
NotNum == [num |-> FALSE]
List(items) == [list |-> TRUE, items |-> items]
NotList == [list |-> FALSE]

\* The replies of the text-generation service: no usable JSON text, or a
\* JSON object.
Unusable == [kind |-> "unusable"]
Replies ==
    { Unusable,
      [kind |-> "json", profit_score |-> Num(82004), confidence |-> Num(9004),
       summary |-> "llm summary", monetization_hint |-> "llm hint",
       reason_tags |-> List(<<"SaaS", "!!!", "SaaS">>)],
      [kind |-> "json", profit_score |-> Num(82000), confidence |-> Num(8700),
       summary |-> "", monetization_hint |-> "",
       reason_tags |-> List(<<"SaaS">>)],
      [kind |-> "json", profit_score |-> NotNum, confidence |-> NotNum,
       summary |-> "", monetization_hint |-> "",
       reason_tags |-> NotList],
      [kind |-> "json", profit_score |-> Num(120000), confidence |-> Num(-5),
       summary |-> "", monetization_hint |-> "llm hint",
       reason_tags |-> List(<<>>)] }

_clamp_float(value, minimum, maximum, fallback) ==
    IF ~value.num THEN fallback
    ELSE Max(Min(value.v, maximum), minimum)

\* One raw tag: stripped, lower-cased, blanks to underscores, other
\* characters dropped; "" when nothing is left, else prefixed llm_.
NormalizeTag(item) ==
    CASE item = "SaaS" -> "llm_saas"
      [] item = "!!!" -> ""
      [] OTHER -> ""

_normalize_reason_tags(value) ==
    IF ~value.list THEN <<>>
    ELSE LET first3 == SubSeq(value.items, 1, Min(3, Len(value.items)))
             tags == {NormalizeTag(first3[i]) : i \in DOMAIN first3} \ {""}
         IN  SortedTags(tags)

NoAssessment == [kind |-> "none"]

\* GeminiAssessor.assess once _generate_content has returned a reply.
assess(reply) ==
    IF reply.kind = "unusable" THEN NoAssessment
    ELSE [kind |-> "assessment",
          profit_score |-> _clamp_float(reply.profit_score, 0, 100000, 50000),
          confidence |-> _clamp_float(reply.confidence, 0, 10000, 5000),
          summary |-> reply.summary,
          monetization_hint |-> reply.monetization_hint,
          reason_tags |-> _normalize_reason_tags(reply.reason_tags)]

\* The two weights of the blend have changed places.
Merge_weights_swapped(idea, assessment) ==
    [idea EXCEPT
        !.problem_summary =
            IF assessment.summary # "" THEN assessment.summary ELSE @,
        !.solution_hint =
            IF assessment.monetization_hint # ""
            THEN assessment.monetization_hint ELSE @,
        !.llm_profit_score = RoundHalfEven(assessment.profit_score, 10),
        !.llm_confidence = RoundHalfEven(assessment.confidence, 10),
        !.relevance_score =
            RoundHalfEven(650 * @ + 35 * assessment.profit_score, 1000),
        !.reason_tags =
            SortedTags(SeqToSet(@) \cup {"llm_assessed"}
                       \cup SeqToSet(assessment.reason_tags))]

\* The new tags are appended to the list; nothing is sorted.
Merge_tags_appended(idea, assessment) ==
    [idea EXCEPT
        !.problem_summary =
            IF assessment.summary # "" THEN assessment.summary ELSE @,
        !.solution_hint =
            IF assessment.monetization_hint # ""
            THEN assessment.monetization_hint ELSE @,
        !.llm_profit_score = RoundHalfEven(assessment.profit_score, 10),
        !.llm_confidence = RoundHalfEven(assessment.confidence, 10),
        !.relevance_score =
            RoundHalfEven(350 * @ + 65 * assessment.profit_score, 1000),
        !.reason_tags = @ \o <<"llm_assessed">> \o assessment.reason_tags]

\* Lines 111-125: the merge of a valid assessment into the idea.
Merge(idea, assessment) ==
    [idea EXCEPT
        !.problem_summary =
            IF assessment.summary # "" THEN assessment.summary ELSE @,
        !.solution_hint =
            IF assessment.monetization_hint # ""
            THEN assessment.monetization_hint ELSE @,
        !.llm_profit_score = RoundHalfEven(assessment.profit_score, 10),
        !.llm_confidence = RoundHalfEven(assessment.confidence, 10),
        !.relevance_score =
            RoundHalfEven(350 * @ + 65 * assessment.profit_score, 1000),
        !.reason_tags =
            SortedTags(SeqToSet(@) \cup {"llm_assessed"}
                       \cup SeqToSet(assessment.reason_tags))]


\* sorted(..., key=relevance_score, reverse=True): stable, equal scores
\* keep their order.  The lists hold positions of the idea objects.
RECURSIVE InsertByRelevance(_, _, _)
InsertByRelevance(sorted, i, objs) ==
    IF sorted = <<>> THEN <<i>>
    ELSE IF objs[Head(sorted)].relevance_score >= objs[i].relevance_score
         THEN <<Head(sorted)>> \o InsertByRelevance(Tail(sorted), i, objs)
         ELSE <<i>> \o sorted

RECURSIVE SortByRelevance(_, _)
SortByRelevance(list, objs) ==
    IF list = <<>> THEN <<>>
    ELSE InsertByRelevance(
             SortByRelevance(SubSeq(list, 1, Len(list) - 1), objs),
             list[Len(list)], objs)

assess_limit == Max(e_cfg.max_candidates, 1)
\* The slice takes one idea too many.
target_ideas_one_more ==
    SubSeq(e_sorted, 1, Min(assess_limit + 1, Len(e_sorted)))

target_ideas == SubSeq(e_sorted, 1, Min(assess_limit, Len(e_sorted)))

GeminiError == "RuntimeError: Gemini request failed."
Returned(list) == [kind |-> "returned", ideas |-> list]

UnchangedInputs == UNCHANGED <<e_cfg, e_orig, e_posts>>

\* Line 94: nothing to do; the argument is returned as it is.
EnrichNotEnabled ==
    /\ e_pc = "call"
    /\ \/ e_orig = <<>>
       \/ e_cfg.gemini = "none"
       \/ (e_cfg.gemini = "set" /\ ~e_cfg.enabled)
    /\ e_result' = Returned([i \in DOMAIN e_orig |-> i])
    /\ e_pc' = "returned"
    /\ UNCHANGED <<e_ideas, e_sorted, e_idx, e_attempt, e_log>>
    /\ UnchangedInputs
    /\ UNCHANGED <<pvars, svars, client, runs, summ>>

\* Lines 97-102: the list is sorted and the loop entered.
EnrichBegin ==
    /\ e_pc = "call"
    /\ e_orig # <<>>
    /\ e_cfg.gemini = "set"
    /\ e_cfg.enabled
    /\ e_sorted' = SortByRelevance([i \in DOMAIN e_orig |-> i], e_ideas)
    /\ e_idx' = 1
    /\ e_pc' = "loop"
    /\ UNCHANGED <<e_ideas, e_attempt, e_log, e_result>>
    /\ UnchangedInputs
    /\ UNCHANGED <<pvars, svars, client, runs, summ>>

\* Lines 104-106: the candidate's post is not among the posts.
LoopSkipsMissingPost ==
    /\ e_pc = "loop"
    /\ e_idx <= Len(target_ideas)
    /\ e_ideas[target_ideas[e_idx]].post_id \notin e_posts
    /\ e_log' = Append(e_log, [idea |-> target_ideas[e_idx],
                               kind |-> "no_post", attempt |-> 0])
    /\ e_idx' = e_idx + 1
    /\ UNCHANGED <<e_ideas, e_sorted, e_pc, e_attempt, e_result>>
    /\ UnchangedInputs
    /\ UNCHANGED <<pvars, svars, client, runs, summ>>

\* Line 107 into _generate_content: the first attempt is about to be made.
AssessCall ==
    /\ e_pc = "loop"
    /\ e_idx <= Len(target_ideas)
    /\ e_ideas[target_ideas[e_idx]].post_id \in e_posts
    /\ e_attempt' = 1
    /\ e_pc' = "request"
    /\ e_log' = Append(e_log, [idea |-> target_ideas[e_idx],
                               kind |-> "assess", attempt |-> 0])
    /\ UNCHANGED <<e_ideas, e_sorted, e_idx, e_result>>
    /\ UnchangedInputs
    /\ UNCHANGED <<pvars, svars, client, runs, summ>>

\* The pause is taken after every failed attempt, the last one included.
RequestFails_sleeps_after_last ==
    /\ e_pc = "request"
    /\ LET i == target_ideas[e_idx]
           failed == [idea |-> i, kind |-> "request_failed",
                      attempt |-> e_attempt]
           sleep == [idea |-> i, kind |-> "sleep", attempt |-> e_attempt,
                     tenths |-> 12 * e_attempt]
       IN  IF e_attempt < max_retries
           THEN /\ e_log' = e_log \o <<failed, sleep>>
                /\ e_attempt' = e_attempt + 1
                /\ UNCHANGED <<e_pc, e_result>>
           ELSE /\ e_log' = e_log \o <<failed, sleep,
                                       [idea |-> i, kind |-> "exhausted",
                                        attempt |-> e_attempt]>>
                /\ e_pc' = "raised"
                /\ e_result' = Raised(GeminiError)
                /\ UNCHANGED e_attempt
    /\ UNCHANGED <<e_ideas, e_sorted, e_idx>>
    /\ UnchangedInputs
    /\ UNCHANGED <<pvars, svars, client, runs, summ>>

\* Lines 75-85: the attempt fails with a transient error; a pause and
\* another attempt follow, or, after the last attempt, RuntimeError, which
\* nothing between _generate_content and the caller of
\* enrich_ideas_with_gemini catches.
RequestFails ==
    /\ e_pc = "request"
    /\ LET i == target_ideas[e_idx]
           failed == [idea |-> i, kind |-> "request_failed",
                      attempt |-> e_attempt]
       IN  IF e_attempt < max_retries
           THEN /\ e_log' = e_log \o <<failed,
                                       [idea |-> i, kind |-> "sleep",
                                        attempt |-> e_attempt,
                                        tenths |-> 12 * e_attempt]>>
                /\ e_attempt' = e_attempt + 1
                /\ UNCHANGED <<e_pc, e_result>>
           ELSE /\ e_log' = e_log \o <<failed,
                                       [idea |-> i, kind |-> "exhausted",
                                        attempt |-> e_attempt]>>
                /\ e_pc' = "raised"
                /\ e_result' = Raised(GeminiError)
                /\ UNCHANGED e_attempt
    /\ UNCHANGED <<e_ideas, e_sorted, e_idx>>
    /\ UnchangedInputs
    /\ UNCHANGED <<pvars, svars, client, runs, summ>>

\* Lines 77-78, 39-59 and 108-125: the attempt gets a reply; assess turns
\* it into an assessment or None, and an assessment is merged.
ReplyReceived(reply) ==
    /\ e_pc = "request"
    /\ LET i == target_ideas[e_idx]
           assessment == assess(reply)
           got == [idea |-> i, kind |-> "reply", attempt |-> e_attempt,
                   reply |-> reply]
       IN  IF assessment = NoAssessment
           THEN /\ e_log' = e_log \o <<got, [idea |-> i, kind |-> "none",
                                             attempt |-> e_attempt]>>
                /\ UNCHANGED e_ideas
           ELSE /\ e_log' = e_log \o <<got, [idea |-> i, kind |-> "merged",
                                             attempt |-> e_attempt]>>
                /\ e_ideas' = [e_ideas EXCEPT ![i] = Merge(@, assessment)]
    /\ e_idx' = e_idx + 1
    /\ e_pc' = "loop"
    /\ UNCHANGED <<e_sorted, e_attempt, e_result>>
    /\ UnchangedInputs
    /\ UNCHANGED <<pvars, svars, client, runs, summ>>

\* The list is returned as the loop left it, without the second sort.
EnrichReturn_without_resort ==
    /\ e_pc = "loop"
    /\ e_idx > Len(target_ideas)
    /\ e_sorted' = e_sorted
    /\ e_result' = Returned(e_sorted)
    /\ e_pc' = "returned"
    /\ UNCHANGED <<e_ideas, e_idx, e_attempt, e_log>>
    /\ UnchangedInputs
    /\ UNCHANGED <<pvars, svars, client, runs, summ>>

\* Lines 127-128: the loop is over; the list is sorted again and returned.
EnrichReturn ==
    /\ e_pc = "loop"
    /\ e_idx > Len(target_ideas)
    /\ e_sorted' = SortByRelevance(e_sorted, e_ideas)
    /\ e_result' = Returned(SortByRelevance(e_sorted, e_ideas))
    /\ e_pc' = "returned"
    /\ UNCHANGED <<e_ideas, e_idx, e_attempt, e_log>>
    /\ UnchangedInputs
    /\ UNCHANGED <<pvars, svars, client, runs, summ>>

\* A call of enrich_ideas_with_gemini with its arguments.
InitEnrich ==
    /\ clock = 0
    /\ source = {}
    /\ run_logs = <<>>
    /\ posts_tbl = <<>>
    /\ ideas_tbl = <<>>
    /\ files = {}
    /\ pc = "idle"
    /\ local = NoLocal
    /\ exc = NoExc
    /\ calls = <<>>
    /\ sent = <<>>
    /\ result = NoResult
    /\ snap = NoSnapshot
    /\ faults = 0
    /\ e_cfg \in GeminiInputs
    /\ e_orig \in IdeaLists
    /\ e_ideas = e_orig
    /\ e_posts \in SUBSET {e_orig[i].post_id : i \in DOMAIN e_orig}
    /\ e_sorted = <<>>
    /\ e_pc = "call"
    /\ e_idx = 0
    /\ e_attempt = 0
    /\ e_log = <<>>
    /\ e_result = NoResult
    /\ StoreOff
    /\ client = ClientOff
    /\ runs = <<NoRace, NoRace>>
    /\ summ = SummaryOff

NextEnrich ==
    \/ EnrichNotEnabled
    \/ EnrichBegin
    \/ LoopSkipsMissingPost
    \/ AssessCall
    \/ RequestFails
    \/ \E reply \in Replies : ReplyReceived(reply)
    \/ EnrichReturn

SpecEnrich == InitEnrich /\ [][NextEnrich]_vars

\* The loop of lines 103-125 with its iterations taken in any order and
\* overlapping: a candidate's assessment (line 107) and its merge (lines
\* 111-125) are separate steps, and other candidates may be assessed or
\* merged in between.  It asks whether the result depends on the order
\* in which the candidates are worked on.

\* Selected candidates not yet looked at; those assessed and not yet merged.
Unstarted == SeqToSet(target_ideas) \ {e_log[k].idea : k \in DOMAIN e_log}

Pending ==
    {c \in SeqToSet(target_ideas) :
        /\ \E k \in DOMAIN e_log : e_log[k].idea = c /\ e_log[k].kind = "reply"
        /\ ~\E k \in DOMAIN e_log :
              e_log[k].idea = c /\ e_log[k].kind \in {"none", "merged"}}

\* Lines 104-106.
AnyOrderMissingPost(c) ==
    /\ e_pc = "loop"
    /\ c \in Unstarted
    /\ e_ideas[c].post_id \notin e_posts
    /\ e_log' = Append(e_log, [idea |-> c, kind |-> "no_post", attempt |-> 0])
    /\ UNCHANGED <<e_ideas, e_sorted, e_idx, e_pc, e_attempt, e_result>>
    /\ UnchangedInputs
    /\ UNCHANGED <<pvars, svars, client, runs, summ>>

\* Line 107: assess returns (a reply came, at whatever attempt).
AnyOrderReply(c, reply) ==
    /\ e_pc = "loop"
    /\ c \in Unstarted
    /\ e_ideas[c].post_id \in e_posts
    /\ e_log' = Append(e_log, [idea |-> c, kind |-> "reply", attempt |-> 1,
                               reply |-> reply])
    /\ UNCHANGED <<e_ideas, e_sorted, e_idx, e_pc, e_attempt, e_result>>
    /\ UnchangedInputs
    /\ UNCHANGED <<pvars, svars, client, runs, summ>>

\* Line 107: assess raises after its last attempt, and so does the call.
AnyOrderFails(c) ==
    /\ e_pc = "loop"
    /\ c \in Unstarted
    /\ e_ideas[c].post_id \in e_posts
    /\ e_log' = Append(e_log, [idea |-> c, kind |-> "exhausted",
                               attempt |-> max_retries])
    /\ e_pc' = "raised"
    /\ e_result' = Raised(GeminiError)
    /\ UNCHANGED <<e_ideas, e_sorted, e_idx, e_attempt>>
    /\ UnchangedInputs
    /\ UNCHANGED <<pvars, svars, client, runs, summ>>

\* The candidate is moved to the end of the list once it is merged.
AnyOrderMerge_moves_to_end(c) ==
    /\ e_pc = "loop"
    /\ c \in Pending
    /\ LET k == CHOOSE n \in DOMAIN e_log :
                    e_log[n].idea = c /\ e_log[n].kind = "reply"
           assessment == assess(e_log[k].reply)
       IN  IF assessment = NoAssessment
           THEN /\ e_log' = Append(e_log, [idea |-> c, kind |-> "none",
                                           attempt |-> 1])
                /\ UNCHANGED <<e_ideas, e_sorted>>
           ELSE /\ e_log' = Append(e_log, [idea |-> c, kind |-> "merged",
                                           attempt |-> 1])
                /\ e_ideas' = [e_ideas EXCEPT ![c] = Merge(@, assessment)]
                /\ e_sorted' = Append(SelectSeq(e_sorted, LAMBDA i : i # c), c)
    /\ UNCHANGED <<e_idx, e_pc, e_attempt, e_result>>
    /\ UnchangedInputs
    /\ UNCHANGED <<pvars, svars, client, runs, summ>>

\* Lines 108-125.
AnyOrderMerge(c) ==
    /\ e_pc = "loop"
    /\ c \in Pending
    /\ LET k == CHOOSE n \in DOMAIN e_log :
                    e_log[n].idea = c /\ e_log[n].kind = "reply"
           assessment == assess(e_log[k].reply)
       IN  IF assessment = NoAssessment
           THEN /\ e_log' = Append(e_log, [idea |-> c, kind |-> "none",
                                           attempt |-> 1])
                /\ UNCHANGED e_ideas
           ELSE /\ e_log' = Append(e_log, [idea |-> c, kind |-> "merged",
                                           attempt |-> 1])
                /\ e_ideas' = [e_ideas EXCEPT ![c] = Merge(@, assessment)]
    /\ UNCHANGED <<e_sorted, e_idx, e_pc, e_attempt, e_result>>
    /\ UnchangedInputs
    /\ UNCHANGED <<pvars, svars, client, runs, summ>>

\* Lines 127-128, once every selected candidate is done.
AnyOrderReturn ==
    /\ e_pc = "loop"
    /\ Unstarted = {}
    /\ Pending = {}
    /\ e_sorted' = SortByRelevance(e_sorted, e_ideas)
    /\ e_result' = Returned(SortByRelevance(e_sorted, e_ideas))
    /\ e_pc' = "returned"
    /\ UNCHANGED <<e_ideas, e_idx, e_attempt, e_log>>
    /\ UnchangedInputs
    /\ UNCHANGED <<pvars, svars, client, runs, summ>>

NextAnyOrder ==
    \/ EnrichNotEnabled
    \/ EnrichBegin
    \/ \E c \in 1..MaxIdeas :
          \/ AnyOrderMissingPost(c)
          \/ \E reply \in Replies : AnyOrderReply(c, reply)
          \/ AnyOrderFails(c)
          \/ AnyOrderMerge(c)
    \/ AnyOrderReturn

SpecAnyOrder == InitEnrich /\ [][NextAnyOrder]_vars

\* run_once under a configuration whose gemini section is enabled.  The
\* steps of run_once are the same: pipeline.py does not import or call
\* llm_assessor, and no other module of the package calls
\* enrich_ideas_with_gemini, so the enrichment state stays as it is.
GeminiEnabled == [gemini |-> "set", enabled |-> TRUE, max_candidates |-> 2]

InitGemini ==
    /\ clock = 0
    /\ source = {}
    /\ run_logs = <<>>
    /\ posts_tbl = <<>>
    /\ ideas_tbl = <<>>
    /\ files = {}
    /\ pc = "idle"
    /\ local = NoLocal
    /\ exc = NoExc
    /\ calls = <<>>
    /\ sent = <<>>
    /\ result = NoResult
    /\ snap = NoSnapshot
    /\ faults = 0
    /\ e_cfg = GeminiEnabled
    /\ e_orig = <<>>
    /\ e_ideas = <<>>
    /\ e_posts = {}
    /\ e_sorted = <<>>
    /\ e_pc = "off"
    /\ e_idx = 0
    /\ e_attempt = 0
    /\ e_log = <<>>
    /\ e_result = NoResult
    /\ StoreOff
    /\ client = ClientOff
    /\ runs = <<NoRace, NoRace>>
    /\ summ = SummaryOff

SpecGemini == InitGemini /\ [][Next]_vars

----------------------------------------------------------------------------
\* storage.py called directly: a caller hands batches of posts and of ideas
\* to the store and queries the window, in any order.

MaxStoreCalls == 3
MaxBatch == 2

StoreIds == {1, 2}
StoreStamps == {1, 2}
StoreFloors == {1, 2, 3}

StorePosts ==
    {[post_id |-> k, subreddit |-> "r1", created_utc |-> 1, score |-> q] :
        k \in StoreIds, q \in Scores}

\* Idea records as a caller may build them: scores that tie and differ,
\* creation times that tie and differ, LLM fields absent and present, tag
\* lists in ascending order (the empty string sorts first).
IdeaShapes ==
    {[relevance_score |-> 6000, created_utc |-> 1,
      llm_profit_score |-> Absent, llm_confidence |-> Absent,
      reason_tags |-> <<"pain_signal">>],
     [relevance_score |-> 6000, created_utc |-> 2,
      llm_profit_score |-> 8200, llm_confidence |-> 900,
      reason_tags |-> <<"llm_assessed", "pain_signal">>],
     [relevance_score |-> 4000, created_utc |-> 2,
      llm_profit_score |-> Absent, llm_confidence |-> Absent,
      reason_tags |-> <<"", "pain_signal">>],
     [relevance_score |-> 4000, created_utc |-> 2,
      llm_profit_score |-> 8200, llm_confidence |-> 900,
      reason_tags |-> <<"a,b">>]}

StoreIdeas ==
    {[post_id |-> k, subreddit |-> "r1",
      relevance_score |-> d.relevance_score,
      reason_tags |-> d.reason_tags,
      created_utc |-> d.created_utc,
      llm_profit_score |-> d.llm_profit_score,
      llm_confidence |-> d.llm_confidence] : k \in StoreIds, d \in IdeaShapes}

BatchesOf(S) == UNION {[1..n -> S] : n \in 0..MaxBatch}

\* Per identifier of the batch, the record at its last position in the
\* batch with the timestamp of the call; other identifiers keep theirs.
LastWritten(last, batch, utc) ==
    LET ids == {batch[i].post_id : i \in DOMAIN batch}
        at(k) == CHOOSE i \in DOMAIN batch :
                    /\ batch[i].post_id = k
                    /\ \A j \in DOMAIN batch :
                          batch[j].post_id = k => j <= i
    IN  [k \in DOMAIN last \cup ids |->
            IF k \in ids THEN [record |-> batch[at(k)], utc |-> utc]
            ELSE last[k]]

UpsertCall(op, batch, utc) ==
    [op |-> op, batch |-> batch, utc |-> utc,
     repeated |-> /\ s_call.op = op
                  /\ s_call.batch = batch
                  /\ s_call.utc = utc]

StoreUpsertPosts(posts, fetched_utc) ==
    /\ s_n < MaxStoreCalls
    /\ posts_tbl' = upsert_posts(posts_tbl, posts, fetched_utc)
    /\ s_posts' = LastWritten(s_posts, posts, fetched_utc)
    /\ s_call' = UpsertCall("upsert_posts", posts, fetched_utc)
    /\ s_n' = s_n + 1
    /\ UNCHANGED <<ideas_tbl, s_ideas>>
    /\ UNCHANGED <<clock, source, run_logs, files, pc, local, exc, calls,
                   sent, result, snap, faults>>
    /\ UNCHANGED <<evars, client, runs, summ>>

StoreUpsertIdeas(ideas, extracted_utc) ==
    /\ s_n < MaxStoreCalls
    /\ ideas_tbl' = upsert_ideas(ideas_tbl, ideas, extracted_utc)
    /\ s_ideas' = LastWritten(s_ideas, ideas, extracted_utc)
    /\ s_call' = UpsertCall("upsert_ideas", ideas, extracted_utc)
    /\ s_n' = s_n + 1
    /\ UNCHANGED <<posts_tbl, s_posts>>
    /\ UNCHANGED <<clock, source, run_logs, files, pc, local, exc, calls,
                   sent, result, snap, faults>>
    /\ UNCHANGED <<evars, client, runs, summ>>

StoreGetIdeasSince(created_utc_floor) ==
    /\ s_n < MaxStoreCalls
    /\ \E scan \in ScanOrders(ideas_tbl) :
          s_call' = [op |-> "get_ideas_since",
                     floor |-> created_utc_floor,
                     out |-> get_ideas_since(ideas_tbl, scan,
                                             created_utc_floor)]
    /\ s_n' = s_n + 1
    /\ UNCHANGED <<posts_tbl, ideas_tbl, s_posts, s_ideas>>
    /\ UNCHANGED <<clock, source, run_logs, files, pc, local, exc, calls,
                   sent, result, snap, faults>>
    /\ UNCHANGED <<evars, client, runs, summ>>

InitStore == Init

NextStore ==
    \/ \E posts \in BatchesOf(StorePosts), utc \in StoreStamps :
          StoreUpsertPosts(posts, utc)
    \/ \E ideas \in BatchesOf(StoreIdeas), utc \in StoreStamps :
          StoreUpsertIdeas(ideas, utc)
    \/ \E floor \in StoreFloors : StoreGetIdeasSince(floor)

SpecStore == InitStore /\ [][NextStore]_vars

----------------------------------------------------------------------------
\* extractor.py called on a list of fetched posts.

MaxExtractPosts == 4
ExtractScores == {1, 3, 5, 7}

\* A fetched list: the post at position i has identifier i.
FetchedList(scores) ==
    [i \in DOMAIN scores |->
        [post_id |-> i, subreddit |-> "r1", created_utc |-> 1,
         score |-> scores[i]]]

ExtractInputs ==
    {FetchedList(scores) :
        scores \in UNION {[1..n -> ExtractScores] : n \in 0..MaxExtractPosts}}

ExtractIdeas ==
    /\ pc = "extract"
    /\ local' = [local EXCEPT !.ideas = extract_ideas(local.posts)]
    /\ pc' = "extracted"
    /\ UNCHANGED <<clock, source, run_logs, posts_tbl, ideas_tbl, files,
                   exc, calls, sent, result, snap, faults>>
    /\ UNCHANGED <<evars, svars, client, runs, summ>>

InitExtract ==
    /\ clock = 0
    /\ source = {}
    /\ run_logs = <<>>
    /\ posts_tbl = <<>>
    /\ ideas_tbl = <<>>
    /\ files = {}
    /\ pc = "extract"
    /\ \E posts \in ExtractInputs : local = [NoLocal EXCEPT !.posts = posts]
    /\ exc = NoExc
    /\ calls = <<>>
    /\ sent = <<>>
    /\ result = NoResult
    /\ snap = NoSnapshot
    /\ faults = 0
    /\ EnrichOff
    /\ StoreOff
    /\ client = ClientOff
    /\ runs = <<NoRace, NoRace>>
    /\ summ = SummaryOff

NextExtract == ExtractIdeas

SpecExtract == InitExtract /\ [][NextExtract]_vars

----------------------------------------------------------------------------
\* reddit_client.py step by step: one fetch_new_posts_since call with its
\* page requests, each page request with its attempts (_get_json).

client_max_retries == 3
MaxListing == 3
MaxPageSize == 2

ListingStamps == {1, 2, 3}
MaxPostsInputs == {0, 1, 2, 3}

\* What the source lists for the forum, in listing order.
ListedPosts(stamps) ==
    [i \in DOMAIN stamps |->
        [post_id |-> i, subreddit |-> "r1", created_utc |-> stamps[i],
         score |-> 3]]

ClientListings ==
    {ListedPosts(stamps) :
        stamps \in UNION {[1..n -> ListingStamps] : n \in 0..MaxListing}}

\* The cap is one above the normalised maximum.
normalized_max_one_more(c) == Max(c.max_posts, 1) + 1

normalized_max(c) == Max(c.max_posts, 1)

\* The "limit" parameter of the next page request.
PageLimit(c) == Min(normalized_max(c) - Len(c.posts), 100)

\* data.children of the reply: the listing after the cursor, at most
\* "limit" entries and at most as many as the source puts on a page.
Children(c) ==
    SubSeq(c.listing, c.after + 1,
           Min(c.after + Min(PageLimit(c), MaxPageSize), Len(c.listing)))

\* data.after of the reply: the cursor behind the last child, absent (0)
\* when the listing ends there.
NextAfter(c) ==
    LET last == c.after + Len(Children(c))
    IN  IF Children(c) # <<>> /\ last < Len(c.listing) THEN last ELSE 0

\* Lines 26-30: the call begins; the while-condition holds at entry.
ClientCall(since_utc, max_posts) ==
    /\ client.pc = "idle"
    /\ client' = [client EXCEPT !.pc = "request",
                                !.since_utc = since_utc,
                                !.max_posts = max_posts,
                                !.page = 1,
                                !.attempt = 1]
    /\ UNCHANGED <<pvars, evars, svars, runs, summ>>

\* After the last failed attempt the call returns the posts it has.
ClientRequestFails_returns_partial ==
    /\ client.pc = "request"
    /\ LET failed == [kind |-> "error", page |-> client.page,
                      attempt |-> client.attempt]
           pause == [kind |-> "sleep", page |-> client.page,
                     tenths |-> 15 * client.attempt]
       IN  IF client.attempt < client_max_retries
           THEN client' = [client EXCEPT
                              !.log = @ \o <<failed, pause>>,
                              !.attempt = @ + 1]
           ELSE client' = [client EXCEPT
                              !.log = Append(@, failed),
                              !.pc = "returned",
                              !.result = [kind |-> "returned",
                                          posts |-> client.posts]]
    /\ UNCHANGED <<pvars, evars, svars, runs, summ>>

\* Lines 93-99: the attempt fails; a pause follows unless it was the last
\* attempt, after which _get_json raises and the call passes the error on.
ClientRequestFails ==
    /\ client.pc = "request"
    /\ LET failed == [kind |-> "error", page |-> client.page,
                      attempt |-> client.attempt]
           pause == [kind |-> "sleep", page |-> client.page,
                     tenths |-> 15 * client.attempt]
       IN  IF client.attempt < client_max_retries
           THEN client' = [client EXCEPT
                              !.log = @ \o <<failed, pause>>,
                              !.attempt = @ + 1]
           ELSE client' = [client EXCEPT
                              !.log = Append(@, failed),
                              !.pc = "raised",
                              !.result = Raised(FetchError)]
    /\ UNCHANGED <<pvars, evars, svars, runs, summ>>

\* Lines 90-92 and 43-62: the attempt succeeds, the children of the page
\* are taken in, and the loop goes on to the next page or returns.
ClientReplyReceived ==
    /\ client.pc = "request"
    /\ LET children == Children(client)
           room == normalized_max(client) - Len(client.posts)
           taken == TakeSince(children, client.since_utc, room)
           posts == client.posts \o taken
           stop == Len(taken) < Len(children) /\ Len(taken) < room
           after == NextAfter(client)
           again == /\ children # <<>>
                    /\ after # 0
                    /\ Len(posts) < normalized_max(client)
                    /\ ~stop
       IN  client' = [client EXCEPT
                         !.log = Append(@, [kind |-> "reply",
                                            page |-> client.page,
                                            attempt |-> client.attempt]),
                         !.posts = posts,
                         !.after = after,
                         !.page = IF again THEN @ + 1 ELSE @,
                         !.attempt = IF again THEN 1 ELSE @,
                         !.pc = IF again THEN "request" ELSE "returned",
                         !.result = IF again THEN @
                                    ELSE [kind |-> "returned",
                                          posts |-> posts]]
    /\ UNCHANGED <<pvars, evars, svars, runs, summ>>

InitClient ==
    /\ clock = 0
    /\ source = {}
    /\ run_logs = <<>>
    /\ posts_tbl = <<>>
    /\ ideas_tbl = <<>>
    /\ files = {}
    /\ pc = "idle"
    /\ local = NoLocal
    /\ exc = NoExc
    /\ calls = <<>>
    /\ sent = <<>>
    /\ result = NoResult
    /\ snap = NoSnapshot
    /\ faults = 0
    /\ EnrichOff
    /\ StoreOff
    /\ \E listing \in ClientListings :
          client = [ClientOff EXCEPT !.pc = "idle", !.listing = listing]
    /\ runs = <<NoRace, NoRace>>
    /\ summ = SummaryOff

NextClient ==
    \/ \E since_utc \in ListingStamps, max_posts \in MaxPostsInputs :
          ClientCall(since_utc, max_posts)
    \/ ClientRequestFails
    \/ ClientReplyReceived

SpecClient == InitClient /\ [][NextClient]_vars

----------------------------------------------------------------------------
\* pipeline.py run by two processes against one store: every Storage call
\* opens its own connection and commits, so the calls of the two
\* invocations interleave. The source lists no post.

RacePeriods == {"daily", "weekly"}

Other(i) == 3 - i

\* Lines 36-49.
RaceStartRun(i, period) ==
    /\ runs[i].pc = "idle"
    /\ run_logs' = start_run(run_logs, period, DayOf(NowUtc), NowUtc)
    /\ runs' = [runs EXCEPT ![i] = [NoRace EXCEPT
                                       !.pc = "same_day_check",
                                       !.period = period,
                                       !.started_utc = NowUtc,
                                       !.run_day_utc = DayOf(NowUtc),
                                       !.run_id = Len(run_logs) + 1]]
    /\ UNCHANGED <<clock, source, posts_tbl, ideas_tbl, files, pc, local,
                   exc, calls, sent, result, snap, faults>>
    /\ UNCHANGED <<evars, svars, client, summ>>

\* Lines 51-75.
RaceSkipSameDay(i) ==
    /\ runs[i].pc = "same_day_check"
    /\ has_successful_run_on_day(run_logs, runs[i].period,
                                 runs[i].run_day_utc)
    /\ run_logs' = finish_run(run_logs, runs[i].run_id, "skipped_same_day",
                              NowUtc, 0, 0, 0, FALSE,
                              SkippedMessage(runs[i].period,
                                             runs[i].run_day_utc))
    /\ runs' = [runs EXCEPT ![i].pc = "returned"]
    /\ UNCHANGED <<clock, source, posts_tbl, ideas_tbl, files, pc, local,
                   exc, calls, sent, result, snap, faults>>
    /\ UNCHANGED <<evars, svars, client, summ>>

\* Lines 51 and 77-82; raced records that the other invocation had passed
\* its own check and not yet closed its row.
RaceCheckpoint(i) ==
    /\ runs[i].pc = "same_day_check"
    /\ ~has_successful_run_on_day(run_logs, runs[i].period,
                                  runs[i].run_day_utc)
    /\ runs' = [runs EXCEPT
                   ![i].pc = "work",
                   ![i].lookback_floor =
                       LookbackFloor(run_logs, runs[i].period,
                                     runs[i].started_utc),
                   ![i].raced = runs[Other(i)].pc \in {"work", "finish"}]
    /\ UNCHANGED <<clock, source, run_logs, posts_tbl, ideas_tbl, files, pc,
                   local, exc, calls, sent, result, snap, faults>>
    /\ UNCHANGED <<evars, svars, client, summ>>

\* Lines 87-125 with nothing fetched: the upserts return at once, the two
\* artifacts are written, the notifier delivers.
RaceWork(i) ==
    /\ runs[i].pc = "work"
    /\ files' = files \cup {CsvPath(runs[i].period, runs[i].started_utc),
                            ReportPath(runs[i].period, runs[i].started_utc)}
    /\ runs' = [runs EXCEPT ![i].pc = "finish"]
    /\ UNCHANGED <<clock, source, run_logs, posts_tbl, ideas_tbl, pc, local,
                   exc, calls, sent, result, snap, faults>>
    /\ UNCHANGED <<evars, svars, client, summ>>

\* Lines 127-141.
RaceFinishSuccess(i) ==
    /\ runs[i].pc = "finish"
    /\ run_logs' = finish_run(run_logs, runs[i].run_id, "success", NowUtc,
                              0, 0, 0, channels # <<>>,
                              SuccessMessage(runs[i].lookback_floor))
    /\ runs' = [runs EXCEPT ![i].pc = "returned"]
    /\ UNCHANGED <<clock, source, posts_tbl, ideas_tbl, files, pc, local,
                   exc, calls, sent, result, snap, faults>>
    /\ UNCHANGED <<evars, svars, client, summ>>

RaceTick ==
    /\ clock < MaxClock
    /\ clock' = clock + 1
    /\ UNCHANGED <<source, run_logs, posts_tbl, ideas_tbl, files, pc, local,
                   exc, calls, sent, result, snap, faults>>
    /\ UNCHANGED <<evars, svars, client, runs, summ>>

InitRace == Init

NextRace ==
    \/ RaceTick
    \/ \E i \in {1, 2} :
          \/ \E period \in RacePeriods : RaceStartRun(i, period)
          \/ RaceSkipSameDay(i)
          \/ RaceCheckpoint(i)
          \/ RaceWork(i)
          \/ RaceFinishSuccess(i)

SpecRace == InitRace /\ [][NextRace]_vars

----------------------------------------------------------------------------
\* extractor.py: derive_problem_summary.  A text is a sequence of
\* characters: "a" an ordinary letter, "p" a pain signal, "P" the same in
\* upper case, "." a sentence delimiter that is no white space, "\n" the
\* delimiter that is white space too, " " a blank.  The cut at 220
\* characters is scaled to SummaryLimit.

MaxBody == 4           \* longest selftext
SummaryLimit == 2      \* characters kept by [:220]

TextChars == {"a", "p", "P", ".", "\n", " "}
PAIN_SIGNALS == {<<"p">>}

Bodies == UNION {[1..n -> TextChars] : n \in 0..MaxBody}
Titles == {<<"T">>, <<"T", "i", "t">>}

IsSpace(ch) == ch \in {" ", "\n"}
IsDelimiter(ch) == ch \in {".", "\n"}

\* str.strip()
RECURSIVE strip(_)
strip(s) ==
    IF s = <<>> THEN s
    ELSE IF IsSpace(Head(s)) THEN strip(Tail(s))
    ELSE IF IsSpace(s[Len(s)]) THEN strip(SubSeq(s, 1, Len(s) - 1))
    ELSE s

\* str.lower()
lower(s) == [i \in DOMAIN s |-> IF s[i] = "P" THEN "p" ELSE s[i]]

\* re.split(r"[.!?\n]+", text) from position i on: cur is the piece being
\* read, in_run says that the character before was a delimiter.
RECURSIVE SplitSentences(_, _, _, _)
SplitSentences(text, i, cur, in_run) ==
    IF i > Len(text) THEN <<cur>>
    ELSE IF IsDelimiter(text[i])
         THEN IF in_run THEN SplitSentences(text, i + 1, cur, TRUE)
              ELSE <<cur>> \o SplitSentences(text, i + 1, <<>>, TRUE)
         ELSE SplitSentences(text, i + 1, Append(cur, text[i]), FALSE)

\* pattern in text
Contains(text, pattern) ==
    \E i \in 1..(Len(text) - Len(pattern) + 1) :
        SubSeq(text, i, i + Len(pattern) - 1) = pattern

_contains_any(text, patterns) == \E pattern \in patterns : Contains(text, pattern)

\* s[:220]
Cut(s) == SubSeq(s, 1, Min(SummaryLimit, Len(s)))

\* Lines 93-99: the first sentence that is not blank and holds a pain
\* signal, stripped; <<>> stands for the loop ending without a return (a
\* stripped sentence that is returned is never empty).
RECURSIVE FirstPainSentence(_)
FirstPainSentence(sentences) ==
    IF sentences = <<>> THEN <<>>
    ELSE LET s == strip(Head(sentences))
         IN  IF s # <<>> /\ _contains_any(lower(s), PAIN_SIGNALS) THEN s
             ELSE FirstPainSentence(Tail(sentences))

derive_problem_summary(title, selftext) ==
    LET text == strip(selftext)
        sentences == SplitSentences(text, 1, <<>>, FALSE)
        pain == FirstPainSentence(sentences)
        first == IF sentences # <<>> THEN strip(sentences[1]) ELSE <<>>
    IN  IF text = <<>> THEN Cut(title)
        ELSE IF pain # <<>> THEN Cut(pain)
        ELSE IF first # <<>> THEN Cut(first)
        ELSE Cut(title)

\* One call of derive_problem_summary.
DeriveSummary ==
    /\ summ.pc = "call"
    /\ summ' = [summ EXCEPT
                   !.pc = "returned",
                   !.result = derive_problem_summary(summ.title,
                                                     summ.selftext)]
    /\ UNCHANGED <<pvars, evars, svars, client, runs>>

InitSummary ==
    /\ clock = 0
    /\ source = {}
    /\ run_logs = <<>>
    /\ posts_tbl = <<>>
    /\ ideas_tbl = <<>>
    /\ files = {}
    /\ pc = "idle"
    /\ local = NoLocal
    /\ exc = NoExc
    /\ calls = <<>>
    /\ sent = <<>>
    /\ result = NoResult
    /\ snap = NoSnapshot
    /\ faults = 0
    /\ EnrichOff
    /\ StoreOff
    /\ client = ClientOff
    /\ runs = <<NoRace, NoRace>>
    /\ \E title \in Titles, selftext \in Bodies :
          summ = [pc |-> "call", title |-> title, selftext |-> selftext,
                  result |-> <<>>]

NextSummary == DeriveSummary

SpecSummary == InitSummary /\ [][NextSummary]_vars

----------------------------------------------------------------------------
\* reddit_client.py against a source that may answer a page request with
\* any page: children that carry no "id" (_parse_post gives None), children
\* older than the floor, fresh children, with or without a continuation
\* token, whatever "limit" and "after" the request named.

MaxPages == 3          \* page requests followed in one call

NoIdChild == [post_id |-> 0, subreddit |-> "r1", created_utc |-> 3, score |-> 3]
OldChild == [post_id |-> 1, subreddit |-> "r1", created_utc |-> 1, score |-> 3]
FreshChild == [post_id |-> 2, subreddit |-> "r1", created_utc |-> 3, score |-> 3]

AnyPages ==
    UNION {[1..n -> {NoIdChild, OldChild, FreshChild}] : n \in 0..MaxPageSize}

\* Lines 46-55: the for loop over the children; gives the posts and the
\* stop flag it ends with.
RECURSIVE TakeChildren(_, _, _, _)
TakeChildren(children, posts, since_utc, cap) ==
    IF children = <<>> THEN [posts |-> posts, stop |-> FALSE]
    ELSE LET child == Head(children)
         IN  IF child.post_id = 0
             THEN TakeChildren(Tail(children), posts, since_utc, cap)
             ELSE IF child.created_utc < since_utc
             THEN [posts |-> posts, stop |-> TRUE]
             ELSE IF Len(posts) + 1 >= cap
             THEN [posts |-> Append(posts, child), stop |-> FALSE]
             ELSE TakeChildren(Tail(children), Append(posts, child),
                               since_utc, cap)

\* Lines 42-60: one pass of the while loop on the page the source sent.
ClientPageReceived(children, after) ==
    /\ client.pc = "request"
    /\ client.page <= MaxPages
    /\ LET taken == TakeChildren(children, client.posts, client.since_utc,
                                 normalized_max(client))
           posts == IF children = <<>> THEN client.posts ELSE taken.posts
           again == /\ children # <<>>
                    /\ after # 0
                    /\ Len(posts) < normalized_max(client)
                    /\ ~taken.stop
       IN  client' = [client EXCEPT
                         !.log = Append(@, [kind |-> "reply",
                                            page |-> client.page,
                                            attempt |-> client.attempt]),
                         !.posts = posts,
                         !.after = IF children = <<>> THEN @ ELSE after,
                         !.page = IF again THEN @ + 1 ELSE @,
                         !.attempt = IF again THEN 1 ELSE @,
                         !.pc = IF again THEN "request" ELSE "returned",
                         !.result = IF again THEN @
                                    ELSE [kind |-> "returned",
                                          posts |-> posts]]
    /\ UNCHANGED <<pvars, evars, svars, runs, summ>>

InitClientPages == InitClient /\ client.listing = <<>>

NextClientPages ==
    \/ \E max_posts \in MaxPostsInputs : ClientCall(2, max_posts)
    \/ ClientRequestFails
    \/ \E children \in AnyPages, after \in {0, 1} :
          ClientPageReceived(children, after)

SpecClientPages == InitClientPages /\ [][NextClientPages]_vars

----------------------------------------------------------------------------
\* Properties of the run controller.

Terminal == {"success", "failed", "skipped_same_day"}
Quiet == pc \in {"idle", "returned"}
LastRow == run_logs[Len(run_logs)]

\* The invocation that has just ended passed the period validation.
ReturnedFromRun ==
    /\ pc = "returned"
    /\ ~(result.kind = "raised" /\ result.error = PeriodError)

SamePeriodDay(a, b) ==
    a.period = b.period /\ a.run_day_utc = b.run_day_utc

\* C1: the ledger holds at most one 'success' row for each pair
\* (period, run_day_utc), whatever the mix of periods, days and failures.
C1_OneSuccessPerPeriodDay ==
    \A i, j \in DOMAIN run_logs :
        ( /\ run_logs[i].status = "success"
          /\ run_logs[j].status = "success"
          /\ SamePeriodDay(run_logs[i], run_logs[j]) ) => i = j

C1_Witness ==
    /\ Quiet
    /\ \E i, j \in DOMAIN run_logs :
          /\ i # j
          /\ SamePeriodDay(run_logs[i], run_logs[j])
          /\ run_logs[i].status = "success"
          /\ run_logs[j].status \in Terminal

ZeroClosed(row) ==
    /\ row.fetched_posts = 0
    /\ row.extracted_ideas = 0
    /\ row.window_ideas = 0
    /\ row.email_sent = FALSE

\* C2: once a run at (p, d) has closed 'success', every later run at (p, d)
\* returns 'skipped_same_day' with zero counts, email_sent false and no
\* csv / report path, and its ledger row is closed with the same values.
C2_LaterRunSkipped ==
    \A j \in DOMAIN run_logs :
        (\E i \in 1..(j - 1) :
            /\ run_logs[i].status = "success"
            /\ SamePeriodDay(run_logs[i], run_logs[j]))
        => /\ run_logs[j].status \in {"started", "skipped_same_day"}
           /\ run_logs[j].status = "started"
                 => pc = "same_day_check" /\ local.run_id = j
           /\ run_logs[j].status = "skipped_same_day"
                 => /\ ZeroClosed(run_logs[j])
                    /\ run_logs[j].run_finished_utc # None
                    /\ run_logs[j].message =
                          SkippedMessage(run_logs[j].period,
                                         run_logs[j].run_day_utc)
           /\ (ReturnedFromRun /\ j = Len(run_logs))
                 => result = RunResult("skipped_same_day", 0, 0, 0,
                                       run_logs[j].run_started_utc,
                                       run_logs[j].run_finished_utc,
                                       NoPath, NoPath, FALSE,
                                       run_logs[j].message)

C2_Witness ==
    /\ ReturnedFromRun
    /\ result.kind = "returned"
    /\ result.status = "skipped_same_day"
    /\ \E i \in 1..(Len(run_logs) - 1) :
          /\ run_logs[i].status = "success"
          /\ SamePeriodDay(run_logs[i], LastRow)

SkippedReturn ==
    /\ pc = "returned"
    /\ result.kind = "returned"
    /\ result.status = "skipped_same_day"

\* C3: a run that ends 'skipped_same_day' has made no call to the post
\* source, written no artifact, called no notifier and left the posts and
\* ideas tables as they were; of the store only its own ledger row changed.
C3_SkipTouchesOnlyOwnRow ==
    SkippedReturn =>
        /\ calls = <<>>
        /\ sent = <<>>
        /\ files = snap.files
        /\ posts_tbl = snap.posts_tbl
        /\ ideas_tbl = snap.ideas_tbl
        /\ Len(run_logs) = Len(snap.run_logs) + 1
        /\ \A i \in DOMAIN snap.run_logs : run_logs[i] = snap.run_logs[i]

C3_Witness ==
    /\ SkippedReturn
    /\ DOMAIN posts_tbl # {}
    /\ DOMAIN ideas_tbl # {}
    /\ files # {}

\* The floor the specification promises: the finish time T of the latest
\* 'success' run of the period when S - T <= L, else S - L.
PromisedFloor(logs, period, started_utc) ==
    LET succ == {i \in DOMAIN logs :
                    logs[i].period = period /\ logs[i].status = "success"}
    IN  IF succ = {} THEN started_utc - lookback_seconds
        ELSE LET T == CHOOSE t \in {logs[i].run_finished_utc : i \in succ} :
                         \A i \in succ : logs[i].run_finished_utc <= t
             IN  IF started_utc - T <= lookback_seconds
                 THEN T
                 ELSE started_utc - lookback_seconds

\* The ledger row of the invocation that is running or has just ended.
OwnRow == run_logs[Len(snap.run_logs) + 1]

\* C4: in a non-skipped run started at S the fetch floor is T when the
\* latest 'success' run of the period finished at T and S - T <= L, and
\* S - L otherwise.
C4_FetchFloor ==
    \A k \in DOMAIN calls :
        calls[k].since_utc =
            PromisedFloor(snap.run_logs, OwnRow.period, OwnRow.run_started_utc)

\* The cap of a forum cannot have been reached: it lists fewer posts.
NoCapReached ==
    \A f \in DOMAIN subreddits :
        Cardinality({p \in source : p.subreddit = subreddits[f]})
            < Max(max_posts_per_subreddit, 1)

\* C5: the checkpoint never creates a gap: for consecutive 'success' runs
\* R1, R2 of a period with R2.start - R1.finish <= L and no cap reached,
\* every post created at c with R1.floor <= c <= R2.start has been fetched
\* (and so persisted) by a run.
C5_NoGap ==
    (Quiet /\ NoCapReached) =>
        \A i, j \in DOMAIN run_logs :
            ( /\ i < j
              /\ run_logs[i].period = run_logs[j].period
              /\ run_logs[i].status = "success"
              /\ run_logs[j].status = "success"
              /\ \A k \in (i + 1)..(j - 1) :
                    ~(run_logs[k].period = run_logs[i].period
                      /\ run_logs[k].status = "success")
              /\ run_logs[j].run_started_utc - run_logs[i].run_finished_utc
                    <= lookback_seconds )
            => \A p \in source :
                  ( /\ run_logs[i].message.floor <= p.created_utc
                    /\ p.created_utc <= run_logs[j].run_started_utc )
                  => p.post_id \in DOMAIN posts_tbl

\* C6: every invocation that inserted a 'started' row has closed it by the
\* time it returns or raises, whichever step raised.
C6_NoDanglingStarted ==
    Quiet => \A i \in DOMAIN run_logs : run_logs[i].status # "started"

C7_StatusDomain ==
    \A i \in DOMAIN run_logs :
        run_logs[i].status \in {"started"} \cup Terminal

C7_RowStep ==
    /\ \A i \in DOMAIN run_logs :
          /\ i \in DOMAIN run_logs'
          /\ run_logs[i].status \in Terminal => run_logs'[i] = run_logs[i]
    /\ \A i \in DOMAIN run_logs' :
          i \notin DOMAIN run_logs => run_logs'[i].status = "started"

\* C7: a row's status is one of the four; a row is created 'started'; once
\* it holds a terminal status no operation of any run changes it.
C7_RowLifecycle == [](C7_StatusDomain) /\ [][C7_RowStep]_vars

C7_Witness ==
    /\ Quiet
    /\ Len(run_logs) = 3
    /\ run_logs[1].status = "success"
    /\ run_logs[2].status = "failed"
    /\ run_logs[3].status \in Terminal

FailedClosed(row, e) ==
    /\ row.status = "failed"
    /\ ZeroClosed(row)
    /\ row.message = ErrorMessage(e)

\* C8: when a step of the try block raises, the row is closed 'failed' with
\* zero counts, email_sent false and a message naming the error, and that
\* error is re-raised: no RunResult is returned.
C8_FailureClosesRow ==
    [][ (pc = "except" /\ pc' # "except")
          => /\ pc' = "returned"
             /\ result' = Raised(exc)
             /\ Len(run_logs') = Len(run_logs)
             /\ FailedClosed(run_logs'[local.run_id], exc) ]_vars

C8_Witness ==
    /\ ReturnedFromRun
    /\ result.kind = "raised"
    /\ result.error = StorageError
    /\ LastRow.status = "failed"
    /\ DOMAIN posts_tbl # {}

\* C9: when a channel raises during send the run closes 'failed' and the
\* error propagates; a run closes 'success' with email_sent true only when
\* every configured channel's send returned.
C9_NotifyFailurePropagates ==
    /\ (pc \in {"finish", "returned"} /\ sent # channels)
          => /\ ~local.email_sent
             /\ ReturnedFromRun =>
                   ~(LastRow.status = "success" /\ LastRow.email_sent)
    /\ (pc = "except" /\ exc = NotifyError) => sent # channels
    /\ (ReturnedFromRun /\ result.kind = "raised"
          /\ result.error = NotifyError)
          => FailedClosed(LastRow, NotifyError)
    /\ (ReturnedFromRun /\ result.kind = "returned"
          /\ result.status = "success" /\ result.email_sent)
          => sent = channels /\ LastRow.email_sent

C9_Witness ==
    /\ ReturnedFromRun
    /\ result.kind = "raised"
    /\ result.error = NotifyError
    /\ sent = <<"smtp">>

----------------------------------------------------------------------------
\* Properties of the enrichment merger.

\* The candidates whose assessment failed: retries exhausted, or a reply
\* assess could not use.
FailedCandidates ==
    {e_log[k].idea : k \in {n \in DOMAIN e_log :
                               e_log[n].kind \in {"exhausted", "none"}}}
MergedCandidates ==
    {e_log[k].idea : k \in {n \in DOMAIN e_log : e_log[n].kind = "merged"}}

VisitedCandidates == {e_log[k].idea : k \in DOMAIN e_log}

\* C10: when the assessment of a selected candidate fails, that candidate
\* is left unmodified, the remaining selected candidates are still assessed
\* and merged, and the call returns the full list without raising.
C10_FailureAbsorbed ==
    /\ e_pc # "raised"
    /\ \A i \in FailedCandidates : e_ideas[i] = e_orig[i]
    /\ (e_pc = "returned" /\ e_sorted # <<>>)
          => /\ e_result.kind = "returned"
             /\ Len(e_result.ideas) = Len(e_orig)
             /\ SeqToSet(e_result.ideas) = DOMAIN e_orig
             /\ Cardinality(VisitedCandidates)
                   = Min(assess_limit, Len(e_orig))
             /\ \A i \in VisitedCandidates :
                   e_orig[i].post_id \in e_posts
                      => i \in FailedCandidates \cup MergedCandidates

\* The assess calls made so far, as positions in e_log.
AssessCalls == {k \in DOMAIN e_log : e_log[k].kind = "assess"}

\* How many ideas stand before idea i when the argument is ordered by
\* relevance score descending, equal scores in the argument's order.
RankBefore(i) ==
    Cardinality({j \in DOMAIN e_orig :
                    \/ e_orig[j].relevance_score > e_orig[i].relevance_score
                    \/ /\ e_orig[j].relevance_score = e_orig[i].relevance_score
                       /\ j < i})

\* The first n ideas of that order.
TopCandidates(n) == {i \in DOMAIN e_orig : RankBefore(i) < n}

\* C11 as stated: only the first max_candidates ideas of the list ordered by
\* score are assessed, with at most max_candidates assess calls; every idea
\* outside that prefix keeps all its fields.
C11_OnlyTopMaxCandidates ==
    e_cfg.gemini = "set" =>
        /\ Cardinality(AssessCalls) <= e_cfg.max_candidates
        /\ \A k \in AssessCalls :
              e_log[k].idea \in TopCandidates(e_cfg.max_candidates)
        /\ \A i \in DOMAIN e_orig :
              i \notin TopCandidates(e_cfg.max_candidates)
                 => e_ideas[i] = e_orig[i]

\* C11 amended: the prefix has max(max_candidates, 1) ideas; each of them is
\* assessed at most once, and every idea outside it keeps all its fields.
C11_OnlyTopAssessLimit ==
    e_cfg.gemini = "set" =>
        /\ Cardinality(AssessCalls) <= Max(e_cfg.max_candidates, 1)
        /\ \A k, n \in AssessCalls : e_log[k].idea = e_log[n].idea => k = n
        /\ \A k \in DOMAIN e_log :
              e_log[k].idea \in TopCandidates(Max(e_cfg.max_candidates, 1))
        /\ \A i \in DOMAIN e_orig :
              i \notin TopCandidates(Max(e_cfg.max_candidates, 1))
                 => e_ideas[i] = e_orig[i]

\* Three ideas of equal score, cap 2: the first two were assessed and
\* merged, the third was not touched.
C11_Witness ==
    /\ e_pc = "returned"
    /\ Len(e_orig) = 3
    /\ \A i \in DOMAIN e_orig : e_orig[i].relevance_score = 4000
    /\ e_cfg.gemini = "set"
    /\ e_cfg.max_candidates = 2
    /\ MergedCandidates = {1, 2}
    /\ Cardinality(AssessCalls) = 2
    /\ e_ideas[3] = e_orig[3]

\* The replies that led to a merge, as positions in e_log.
MergedReplies ==
    {k \in DOMAIN e_log :
        e_log[k].kind = "reply" /\ assess(e_log[k].reply) # NoAssessment}

\* n / d as the nearest integer, for the values of the model, none of which
\* falls half way between two integers.
Nearest(n, d) == (2 * n + d) \div (2 * d)

\* C12: a candidate with prior score s that receives a valid assessment
\* with profit score p gets the score round(0.35 * s + 0.65 * (p / 10), 3),
\* computed once from the score it had before the call, and stores p
\* rounded to 2 decimals and the confidence rounded to 3 decimals.
C12_BlendOnce ==
    /\ \A k, n \in MergedReplies : e_log[k].idea = e_log[n].idea => k = n
    /\ \A k \in MergedReplies :
          LET i == e_log[k].idea
              a == assess(e_log[k].reply)
              s == e_orig[i].relevance_score
          IN  /\ a.profit_score \in 0..100000
              /\ e_ideas[i].relevance_score
                    = Nearest(350 * s + 65 * a.profit_score, 1000)
              /\ e_ideas[i].llm_profit_score = Nearest(a.profit_score, 10)
              /\ e_ideas[i].llm_confidence = Nearest(a.confidence, 10)

\* s = 4.0 and p = 82.0 give 6.73.
C12_Witness ==
    /\ e_pc = "returned"
    /\ \E k \in MergedReplies :
          /\ e_orig[e_log[k].idea].relevance_score = 4000
          /\ assess(e_log[k].reply).profit_score = 82000
          /\ e_ideas[e_log[k].idea].relevance_score = 6730
          /\ e_ideas[e_log[k].idea].llm_profit_score = 8200
          /\ e_ideas[e_log[k].idea].llm_confidence = 870

\* The place of a tag in the alphabet of the model's tags.
TagRank(t) == CHOOSE n \in DOMAIN TagOrder : TagOrder[n] = t

\* The list is in strictly increasing order: sorted, nothing twice.
StrictlySorted(tags) ==
    \A a, b \in DOMAIN tags : a < b => TagRank(tags[a]) < TagRank(tags[b])

\* C13: for every returned idea, llm_profit_score is set, llm_confidence is
\* set and 'llm_assessed' is among its tags either all three or none, all
\* three exactly for the candidates that received a valid assessment; the
\* tag list of such a candidate is the sorted, duplicate-free union of its
\* previous tags, 'llm_assessed' and the assessment's tags.
C13_LlmFieldsCoincide ==
    (e_pc = "returned" /\ e_result.kind = "returned") =>
        \A i \in SeqToSet(e_result.ideas) :
            LET got == {k \in MergedReplies : e_log[k].idea = i}
                idea == e_ideas[i]
            IN  /\ (idea.llm_profit_score # Absent) <=> (got # {})
                /\ (idea.llm_confidence # Absent) <=> (got # {})
                /\ ("llm_assessed" \in SeqToSet(idea.reason_tags))
                      <=> (got # {})
                /\ \A k \in got :
                      /\ StrictlySorted(idea.reason_tags)
                      /\ SeqToSet(idea.reason_tags)
                            = SeqToSet(e_orig[i].reason_tags)
                              \cup {"llm_assessed"}
                              \cup SeqToSet(assess(e_log[k].reply).reason_tags)

\* One idea merged with a tagged assessment, one assessed without a usable
\* reply, one beyond the cap.
C13_Witness ==
    /\ e_pc = "returned"
    /\ Len(e_orig) = 3
    /\ \E i, j \in DOMAIN e_orig :
          /\ e_ideas[i].reason_tags
                = <<"llm_assessed", "llm_saas", "pain_signal">>
          /\ e_ideas[i].llm_confidence # Absent
          /\ j \in FailedCandidates
          /\ e_ideas[j].llm_profit_score = Absent
          /\ e_ideas[j].reason_tags = <<"pain_signal">>

----------------------------------------------------------------------------
\* Properties of the run as a whole.

\* C14: in a non-skipped run with enrichment enabled the LLM merger is
\* invoked on the extracted ideas after persist and before the reporting
\* window is queried, so that the report and the stored ideas carry the
\* merged scores.
C14_EnrichBeforeReport ==
    ( /\ e_cfg.gemini = "set"
      /\ e_cfg.enabled
      /\ pc \in {"notify", "finish"}
      /\ local.ideas # <<>> )
    => e_pc # "off"

\* The invocation that has just ended closed its row 'success'.
SuccessReturn ==
    /\ pc = "returned"
    /\ result.kind = "returned"
    /\ result.status = "success"

\* The stored ideas created at or after the floor.
WindowAt(floor) ==
    {k \in DOMAIN ideas_tbl : ideas_tbl[k].created_utc >= floor}

\* C15: in a non-skipped run one floor value is passed to the fetch of every
\* configured forum and to the reporting-window query; the window_ideas
\* count recorded on success is the number of stored ideas created at or
\* after that floor, ideas persisted by earlier runs included.
C15_OneFloor ==
    /\ \A k, n \in DOMAIN calls : calls[k].since_utc = calls[n].since_utc
    /\ \A k \in DOMAIN calls : calls[k].subreddit = subreddits[k]
    /\ pc \in {"persist", "report", "notify", "finish"}
          => Len(calls) = Len(subreddits)
    /\ (pc \in {"notify", "finish"} /\ calls # <<>>)
          => /\ {local.window_ideas[i].post_id :
                   i \in DOMAIN local.window_ideas}
                      = WindowAt(calls[1].since_utc)
             /\ Len(local.window_ideas)
                   = Cardinality(WindowAt(calls[1].since_utc))
    /\ (SuccessReturn /\ calls # <<>>)
          => /\ Len(calls) = Len(subreddits)
             /\ LastRow.window_ideas
                   = Cardinality(WindowAt(calls[1].since_utc))
             /\ result.window_ideas = LastRow.window_ideas

\* A successful run whose floor is a checkpoint later than the default
\* floor and whose window holds an idea that an earlier run had persisted.
C15_Witness ==
    /\ SuccessReturn
    /\ calls # <<>>
    /\ LastRow.window_ideas >= 1
    /\ \E k \in DOMAIN snap.ideas_tbl : k \in WindowAt(calls[1].since_utc)
    /\ LastRow.run_started_utc - lookback_seconds < calls[1].since_utc

\* Posts, ideas and artifacts are as they were when the invocation began.
NothingPersisted ==
    /\ posts_tbl = snap.posts_tbl
    /\ ideas_tbl = snap.ideas_tbl
    /\ files = snap.files

\* C16: extraction and persistence begin only after the fetch of every
\* configured forum has returned; when the fetch of a forum raises, the run
\* upserts no posts and no ideas, writes no report and sends no
\* notification.
C16_NoPartialFetch ==
    /\ pc = "fetch" => (NothingPersisted /\ sent = <<>>)
    /\ (pc = "except" /\ exc = FetchError)
          => (NothingPersisted /\ sent = <<>>)
    /\ (ReturnedFromRun /\ result.kind = "raised"
          /\ result.error = FetchError)
          => /\ NothingPersisted
             /\ sent = <<>>
             /\ LastRow.status = "failed"
    /\ (pc \in {"report", "notify", "finish"}
          \/ (pc = "except" /\ ~NothingPersisted))
          => Len(calls) = Len(subreddits)

\* The fetch of the second forum raised after the first forum had returned
\* a post; the store holds no post.
C16_Witness ==
    /\ pc = "except"
    /\ exc = FetchError
    /\ Len(calls) = 2
    /\ local.posts # <<>>
    /\ posts_tbl = <<>>

----------------------------------------------------------------------------
\* Properties of the posts and ideas tables.

\* C17: after any sequence of upsert_posts and upsert_ideas calls each table
\* holds one row per post identifier written so far and none else, and the
\* row carries the fields of the last record handed over for the identifier
\* (the later of two records of one batch too) with the timestamp of that
\* call; the LLM columns are replaced like every other column, so an idea
\* without LLM fields written over a row that had them leaves them absent.
C17_LastWriteWins ==
    /\ DOMAIN posts_tbl = DOMAIN s_posts
    /\ \A k \in DOMAIN posts_tbl :
          LET row == posts_tbl[k]
              p == s_posts[k].record
          IN  /\ row.post_id = k
              /\ p.post_id = k
              /\ row.subreddit = p.subreddit
              /\ row.created_utc = p.created_utc
              /\ row.score = p.score
              /\ row.fetched_utc = s_posts[k].utc
    /\ DOMAIN ideas_tbl = DOMAIN s_ideas
    /\ \A k \in DOMAIN ideas_tbl :
          LET row == ideas_tbl[k]
              d == s_ideas[k].record
          IN  /\ row.post_id = k
              /\ d.post_id = k
              /\ row.subreddit = d.subreddit
              /\ row.relevance_score = d.relevance_score
              /\ row.reason_tags = join(d.reason_tags)
              /\ row.created_utc = d.created_utc
              /\ row.llm_profit_score = d.llm_profit_score
              /\ row.llm_confidence = d.llm_confidence
              /\ row.extracted_utc = s_ideas[k].utc

\* After a call that stored posts, one batch wrote an idea with LLM fields
\* and then, for the same identifier, an idea without them.
C17_Witness ==
    /\ s_call.op = "upsert_ideas"
    /\ s_n >= 2
    /\ Len(s_call.batch) = 2
    /\ s_call.batch[1].post_id = s_call.batch[2].post_id
    /\ s_call.batch[1].llm_profit_score # Absent
    /\ s_call.batch[2].llm_profit_score = Absent
    /\ ideas_tbl[s_call.batch[2].post_id].llm_profit_score = Absent
    /\ ideas_tbl[s_call.batch[2].post_id].llm_confidence = Absent
    /\ ideas_tbl[s_call.batch[2].post_id].extracted_utc = s_call.utc
    /\ DOMAIN posts_tbl # {}

BatchIds(batch) == {batch[i].post_id : i \in DOMAIN batch}

\* C18: an upsert call that repeats the call before it (same batch, same
\* timestamp) leaves both tables exactly as that call left them, and an
\* upsert of records whose identifiers are all stored adds no row.
C18_Idempotent ==
    [][/\ (s_call'.op \in {"upsert_posts", "upsert_ideas"}
             /\ s_call'.repeated)
          => (posts_tbl' = posts_tbl /\ ideas_tbl' = ideas_tbl)
       /\ (s_call'.op = "upsert_posts" /\ s_n' = s_n + 1
             /\ BatchIds(s_call'.batch) \subseteq DOMAIN posts_tbl)
          => DOMAIN posts_tbl' = DOMAIN posts_tbl
       /\ (s_call'.op = "upsert_ideas" /\ s_n' = s_n + 1
             /\ BatchIds(s_call'.batch) \subseteq DOMAIN ideas_tbl)
          => DOMAIN ideas_tbl' = DOMAIN ideas_tbl]_vars

\* A batch of two posts, one identifier twice with different scores, was
\* applied a second time with the same timestamp.
C18_Witness ==
    /\ s_call.op = "upsert_posts"
    /\ s_call.repeated
    /\ Len(s_call.batch) = 2
    /\ s_call.batch[1].post_id = s_call.batch[2].post_id
    /\ s_call.batch[1].score # s_call.batch[2].score
    /\ posts_tbl[s_call.batch[2].post_id].score = s_call.batch[2].score

C20_WindowOrdered ==
    s_call.op = "get_ideas_since"
       => LET out == s_call.out
          IN  /\ {out[i].post_id : i \in DOMAIN out}
                    = {k \in DOMAIN ideas_tbl :
                          ideas_tbl[k].created_utc >= s_call.floor}
              /\ \A i, j \in DOMAIN out :
                    i # j => out[i].post_id # out[j].post_id
              /\ \A i, j \in DOMAIN out :
                    i < j
                       => \/ out[i].relevance_score > out[j].relevance_score
                          \/ /\ out[i].relevance_score
                                   = out[j].relevance_score
                             /\ out[i].created_utc >= out[j].created_utc

\* A query that returned two ideas of equal score and different creation
\* times, the older one created exactly at the floor.
C20_Witness ==
    /\ s_call.op = "get_ideas_since"
    /\ Len(s_call.out) = 2
    /\ s_call.out[1].relevance_score = s_call.out[2].relevance_score
    /\ s_call.out[1].created_utc > s_call.out[2].created_utc
    /\ s_call.out[2].created_utc = s_call.floor

\* C21: two get_ideas_since queries with the same floor on the same store
\* contents return the same sequence, ideas that tie on relevance score and
\* on creation time included.
C21_SameOrder ==
    [][(/\ s_call.op = "get_ideas_since"
        /\ s_call'.op = "get_ideas_since"
        /\ s_n' = s_n + 1
        /\ s_call'.floor = s_call.floor)
          => s_call'.out = s_call.out]_vars

----------------------------------------------------------------------------
\* Properties of the extractor.

\* C22: extract_ideas returns one idea for each post whose heuristic score
\* is at least min_score and none for a post below it; the ideas are in
\* descending order of their relevance score (the heuristic score rounded
\* to three decimals), and ideas of equal relevance score are in the order
\* in which their posts were fetched.
C22_ExtractFiltersAndOrders ==
    pc = "extracted"
       => LET posts == local.posts
              ideas == local.ideas
          IN  /\ {ideas[i].post_id : i \in DOMAIN ideas}
                    = {posts[k].post_id :
                          k \in {n \in DOMAIN posts :
                                    score_post(posts[n]) >= min_score}}
              /\ \A i, j \in DOMAIN ideas :
                    i # j => ideas[i].post_id # ideas[j].post_id
              /\ \A i \in DOMAIN ideas :
                    ideas[i].relevance_score
                       = RoundHalfEven(score_post(posts[ideas[i].post_id]),
                                       ScorePerMilli)
              /\ \A i, j \in DOMAIN ideas :
                    i < j
                       => \/ ideas[i].relevance_score
                                > ideas[j].relevance_score
                          \/ /\ ideas[i].relevance_score
                                   = ideas[j].relevance_score
                             /\ ideas[i].post_id < ideas[j].post_id

\* Four posts fetched: one below min_score, two whose scores round to one
\* relevance score, and last the best one, which comes out first.
C22_Witness ==
    /\ pc = "extracted"
    /\ Len(local.posts) = 4
    /\ Len(local.ideas) = 3
    /\ \E k \in DOMAIN local.posts : score_post(local.posts[k]) < min_score
    /\ local.ideas[1].post_id = 4
    /\ local.ideas[2].relevance_score = local.ideas[3].relevance_score
    /\ score_post(local.posts[local.ideas[2].post_id])
          # score_post(local.posts[local.ideas[3].post_id])

----------------------------------------------------------------------------
\* Properties of the run controller, continued.

PeriodRejected == pc = "returned" /\ result = Raised(PeriodError)

NoEffectSinceCall ==
    /\ run_logs = snap.run_logs
    /\ posts_tbl = snap.posts_tbl
    /\ ideas_tbl = snap.ideas_tbl
    /\ files = snap.files
    /\ calls = <<>>
    /\ sent = <<>>

\* C23 as stated: an invocation whose period argument is not one of the two
\* literals 'daily' and 'weekly' never starts a run, and a rejected
\* invocation has inserted no ledger row, fetched no forum, persisted
\* nothing and sent no notification.
C23_LiteralPeriodOnly ==
    [][/\ \A p \in PeriodInputs \ {"daily", "weekly"} : ~StartRun(p)
       /\ PeriodRejected' => NoEffectSinceCall']_vars

\* C23 amended: an invocation whose period argument, lower-cased and
\* stripped of surrounding whitespace, is not 'daily' or 'weekly' never
\* starts a run, and a rejected invocation has inserted no ledger row,
\* fetched no forum, persisted nothing and sent no notification.
C23_RejectedBeforeAnyEffect ==
    [][/\ \A p \in PeriodInputs :
             NormalizePeriod(p) \notin {"daily", "weekly"} => ~StartRun(p)
       /\ PeriodRejected' => NoEffectSinceCall']_vars

\* A rejected invocation on a store that earlier runs have filled.
C23_Witness ==
    /\ PeriodRejected
    /\ run_logs # <<>>
    /\ DOMAIN posts_tbl # {}
    /\ files # {}

\* The columns of a ledger row that no operation rewrites.
RowKey(row) ==
    [period |-> row.period,
     run_day_utc |-> row.run_day_utc,
     run_started_utc |-> row.run_started_utc]

\* C24: the run ledger only grows, with identifiers assigned in increasing
\* order: the step of run_once that follows a passed period validation
\* inserts exactly one row, in status 'started', under an identifier
\* greater than every existing one, which the invocation holds as its
\* run_id; no other step changes the number of rows, and no step removes a
\* row or gives its identifier to another run.
C24_LedgerAppendOnly ==
    [][/\ Len(run_logs') >= Len(run_logs)
       /\ \A i \in DOMAIN run_logs :
             RowKey(run_logs'[i]) = RowKey(run_logs[i])
       /\ IF pc = "idle" /\ pc' = "same_day_check"
          THEN /\ Len(run_logs') = Len(run_logs) + 1
               /\ run_logs'[Len(run_logs')].status = "started"
               /\ local'.run_id = Len(run_logs')
               /\ \A i \in DOMAIN run_logs : local'.run_id > i
          ELSE Len(run_logs') = Len(run_logs)]_vars

\* The third invocation has just inserted its row after a run that
\* succeeded and a run that failed.
C24_Witness ==
    /\ pc = "same_day_check"
    /\ Len(run_logs) = 3
    /\ local.run_id = 3
    /\ run_logs[3].status = "started"
    /\ \E i, j \in 1..2 : /\ run_logs[i].status = "success"
                          /\ run_logs[j].status = "failed"

----------------------------------------------------------------------------
\* Properties of the post source client.

ClientReturned == client.pc = "returned"

\* The posts are the first posts of the listing, in listing order, and
\* each was created at or after the floor.
FreshPrefix(out) ==
    /\ Len(out) <= Len(client.listing)
    /\ \A i \in DOMAIN out :
          /\ out[i] = client.listing[i]
          /\ out[i].created_utc >= client.since_utc

\* C25 as stated: fetch_new_posts_since returns at most max_posts posts,
\* whatever max_posts is; each returned post was created at or after
\* since_utc; the posts are in listing order, and none of them is listed
\* after the first post older than since_utc.
C25_AtMostMaxPosts ==
    ClientReturned
       => /\ Len(client.result.posts) <= client.max_posts
          /\ FreshPrefix(client.result.posts)

\* C25 amended: the same with the cap max(max_posts, 1).
C25_AtMostNormalizedMax ==
    ClientReturned
       => /\ Len(client.result.posts) <= Max(client.max_posts, 1)
          /\ FreshPrefix(client.result.posts)

\* A call over two pages that stopped at an older post, below the cap.
C25_Witness ==
    /\ ClientReturned
    /\ client.page = 2
    /\ Len(client.result.posts) = 2
    /\ client.max_posts = 3
    /\ Len(client.listing) = 3
    /\ client.listing[3].created_utc < client.since_utc

IsAttempt(entry) == entry.kind \in {"error", "reply"}

\* C26: each page request is attempted at most max_retries times, the
\* attempts of a page numbered from 1; a pause comes only after a failed
\* attempt that is not the last and is followed by the next attempt; a
\* successful reply is the last attempt of its page; after max_retries
\* failed attempts the call raises one RuntimeError and hands no posts to
\* its caller.
C26_BoundedAttempts ==
    LET log == client.log
        more(k) == k < Len(log)
    IN  /\ \A k \in DOMAIN log :
              /\ IsAttempt(log[k]) => log[k].attempt \in 1..client_max_retries
              /\ (IsAttempt(log[k]) /\ (k = 1 \/ log[k - 1].kind = "reply"))
                    => log[k].attempt = 1
              /\ (log[k].kind = "error"
                     /\ log[k].attempt < client_max_retries)
                    => /\ more(k)
                       /\ log[k + 1].kind = "sleep"
                       /\ log[k + 1].page = log[k].page
              /\ (log[k].kind = "error"
                     /\ log[k].attempt = client_max_retries)
                    => /\ ~more(k)
                       /\ client.pc = "raised"
              /\ log[k].kind = "sleep"
                    => /\ k > 1
                       /\ log[k - 1].kind = "error"
                       /\ log[k - 1].attempt < client_max_retries
                       /\ log[k].tenths > 0
                       /\ IF more(k)
                          THEN /\ IsAttempt(log[k + 1])
                               /\ log[k + 1].page = log[k].page
                               /\ log[k + 1].attempt = log[k - 1].attempt + 1
                          ELSE /\ client.pc = "request"
                               /\ client.attempt = log[k - 1].attempt + 1
              /\ (log[k].kind = "reply" /\ more(k))
                    => /\ IsAttempt(log[k + 1])
                       /\ log[k + 1].page = log[k].page + 1
        /\ client.pc = "raised"
              => /\ client.result = Raised(FetchError)
                 /\ Len(log) >= client_max_retries
                 /\ log[Len(log)].kind = "error"
        /\ client.pc = "returned"
              => /\ log # <<>>
                 /\ log[Len(log)].kind = "reply"

\* The request for the second page failed three times after the first page
\* had delivered posts.
C26_Witness ==
    /\ client.pc = "raised"
    /\ client.page = 2
    /\ client.posts # <<>>
    /\ Cardinality({k \in DOMAIN client.log :
                       client.log[k].kind = "sleep"
                          /\ client.log[k].page = 2}) = 2

----------------------------------------------------------------------------
\* Properties of two invocations on one store.

\* Two ledger rows in status 'success' for one period and one UTC day.
DoubleSuccess ==
    \E i, j \in DOMAIN run_logs :
        /\ i < j
        /\ run_logs[i].status = "success"
        /\ run_logs[j].status = "success"
        /\ run_logs[i].period = run_logs[j].period
        /\ run_logs[i].run_day_utc = run_logs[j].run_day_utc

\* C27: two invocations of run_once for one period and one UTC day that
\* interleave can both insert their 'started' row and pass the same-day
\* check before either writes 'success', and then both close 'success';
\* two success rows for one (period, day) arise in no other way: one of the
\* two invocations passed its check while the other had passed its own and
\* not yet closed its row.
C27_DoubleSuccessOnlyByRace ==
    DoubleSuccess => (runs[1].raced \/ runs[2].raced)

\* Both invocations have returned and the ledger holds two success rows
\* for one period and day.
C27_Witness ==
    /\ DoubleSuccess
    /\ runs[1].pc = "returned"
    /\ runs[2].pc = "returned"
    /\ Len(run_logs) = 2

----------------------------------------------------------------------------
\* Properties of the run controller: what the same-day check looks at.

\* C28: a run is closed 'skipped_same_day' only when an earlier row of the
\* same period and the same UTC day has status 'success'; its own 'started'
\* row, rows that are failed, skipped or started, success rows of the other
\* period and success rows of other days never cause a skip.
C28_SkipOnlyOnSuccessOfPeriodDay ==
    \A j \in DOMAIN run_logs :
        run_logs[j].status = "skipped_same_day"
            => \E i \in 1..(j - 1) :
                  /\ run_logs[i].status = "success"
                  /\ SamePeriodDay(run_logs[i], run_logs[j])

\* After a failed run the retry of the same period and day ran in full and
\* closed 'success', and the run after that one was skipped.
C28_Witness ==
    /\ Len(run_logs) = 3
    /\ run_logs[1].status = "failed"
    /\ run_logs[2].status = "success"
    /\ run_logs[3].status = "skipped_same_day"
    /\ SamePeriodDay(run_logs[1], run_logs[2])
    /\ SamePeriodDay(run_logs[2], run_logs[3])

----------------------------------------------------------------------------
\* Properties of the run controller: what the checkpoint is read from.

\* The 'success' rows of one period, in ledger order.
SuccessRowsOf(logs, period) ==
    LET Keep(row) == row.period = period /\ row.status = "success"
    IN  SelectSeq(logs, Keep)

\* The row the checkpoint query returns is a 'success' row of the period
\* whose finish time is the greatest, the start time deciding ties.
LatestIsGreatest(logs, period) ==
    LET latest == get_latest_successful_run(logs, period)
        cand == {i \in DOMAIN logs :
                    logs[i].period = period /\ logs[i].status = "success"}
    IN  IF cand = {} THEN latest.run_id = 0
        ELSE /\ latest.run_id \in cand
             /\ \A j \in cand :
                   \/ logs[latest.run_id].run_finished_utc
                         > logs[j].run_finished_utc
                   \/ /\ logs[latest.run_id].run_finished_utc
                            = logs[j].run_finished_utc
                      /\ logs[latest.run_id].run_started_utc
                            >= logs[j].run_started_utc

\* C29: the floor every fetch of a run uses is the one the ledger's
\* 'success' rows of the run's period alone give, read from the row with
\* the greatest finish time (ties: greatest start time); failed, skipped
\* and started rows and success rows of the other period do not change it.
C29_CheckpointFromSuccessOfPeriod ==
    \A k \in DOMAIN calls :
        /\ calls[k].since_utc =
               LookbackFloor(SuccessRowsOf(snap.run_logs, OwnRow.period),
                             OwnRow.period, OwnRow.run_started_utc)
        /\ LatestIsGreatest(snap.run_logs, OwnRow.period)

\* A run fetches from the finish time of the success run of its period
\* although a failed run of the period has finished later.
C29_Witness ==
    /\ calls # <<>>
    /\ Len(snap.run_logs) = 2
    /\ snap.run_logs[1].status = "success"
    /\ snap.run_logs[2].status = "failed"
    /\ snap.run_logs[1].period = OwnRow.period
    /\ snap.run_logs[2].period = OwnRow.period
    /\ snap.run_logs[2].run_finished_utc > snap.run_logs[1].run_finished_utc
    /\ calls[1].since_utc = snap.run_logs[1].run_finished_utc
    /\ calls[1].since_utc # OwnRow.run_started_utc - lookback_seconds

----------------------------------------------------------------------------
\* Properties of the enrichment request loop.

IsRequest(entry) == entry.kind \in {"request_failed", "reply"}

\* The requests issued for candidate i so far, as positions in e_log.
RequestsOf(i) == {k \in DOMAIN e_log : e_log[k].idea = i /\ IsRequest(e_log[k])}

\* C30: for one candidate at most max_retries requests are issued, numbered
\* from 1; a pause of 1.2 x attempt number follows a failed attempt that is
\* not the last and comes nowhere else, in particular not after the last
\* attempt; no request follows the first reply; failure is reported only
\* after max_retries failed attempts in a row.
C30_BoundedEnrichmentRequests ==
    LET log == e_log
        more(k) == k < Len(log)
    IN  \A k \in DOMAIN log :
           /\ IsRequest(log[k])
                 => /\ Cardinality(RequestsOf(log[k].idea)) <= max_retries
                    /\ log[k].attempt
                          = Cardinality({j \in RequestsOf(log[k].idea) :
                                            j <= k})
           /\ (log[k].kind = "request_failed" /\ log[k].attempt < max_retries)
                 => /\ more(k)
                    /\ log[k + 1].kind = "sleep"
                    /\ log[k + 1].idea = log[k].idea
                    /\ log[k + 1].tenths = 12 * log[k].attempt
           /\ (log[k].kind = "request_failed" /\ log[k].attempt = max_retries)
                 => /\ more(k)
                    /\ log[k + 1].kind = "exhausted"
           /\ log[k].kind = "sleep"
                 => /\ k > 1
                    /\ log[k - 1].kind = "request_failed"
                    /\ log[k - 1].idea = log[k].idea
                    /\ log[k - 1].attempt < max_retries
                    /\ IF more(k)
                       THEN /\ IsRequest(log[k + 1])
                            /\ log[k + 1].idea = log[k].idea
                       ELSE /\ e_pc = "request"
                            /\ e_attempt = log[k - 1].attempt + 1
           /\ log[k].kind = "reply"
                 => \A j \in RequestsOf(log[k].idea) :
                       j <= k /\ (j < k => log[j].kind = "request_failed")
           /\ log[k].kind = "exhausted"
                 => /\ ~more(k)
                    /\ e_pc = "raised"
                    /\ e_result = Raised(GeminiError)
                    /\ Cardinality(RequestsOf(log[k].idea)) = max_retries
                    /\ \A j \in RequestsOf(log[k].idea) :
                          log[j].kind = "request_failed"

\* One candidate was answered at its last attempt, after two pauses; the
\* next one used up all its attempts and the call raised.
C30_Witness ==
    /\ e_pc = "raised"
    /\ \E k \in DOMAIN e_log :
          /\ e_log[k].kind = "reply"
          /\ e_log[k].attempt = max_retries
          /\ k > 2
          /\ e_log[k - 1].kind = "sleep"
          /\ e_log[k - 1].tenths = 12 * (max_retries - 1)
    /\ e_log[Len(e_log)].kind = "exhausted"

----------------------------------------------------------------------------
\* Properties of the list enrich_ideas_with_gemini returns.

EnrichReturned == e_pc = "returned" /\ e_result.kind = "returned"

EnrichEnabled == e_cfg.gemini = "set" /\ e_cfg.enabled

\* Every idea of the argument stands in the list exactly once.
IsPermutation(list) ==
    /\ Len(list) = Len(e_orig)
    /\ SeqToSet(list) = DOMAIN e_orig

\* Non-increasing in the final relevance score.
NonIncreasing(list) ==
    \A k \in 1..(Len(list) - 1) :
        e_ideas[list[k]].relevance_score
            >= e_ideas[list[k + 1]].relevance_score

\* C31 as stated: whatever the configuration, the returned list is a
\* permutation of the input ideas in non-increasing order of the final
\* relevance score.
C31_PermutationSorted ==
    EnrichReturned
        => IsPermutation(e_result.ideas) /\ NonIncreasing(e_result.ideas)

\* C31 amended: the returned list is a permutation of the input ideas; with
\* enrichment configured and enabled it is in non-increasing order of the
\* final relevance score, otherwise it is the argument in its own order.
C31_PermutationSortedWhenEnabled ==
    EnrichReturned
        => /\ IsPermutation(e_result.ideas)
           /\ EnrichEnabled => NonIncreasing(e_result.ideas)
           /\ ~EnrichEnabled
                 => e_result.ideas = [i \in DOMAIN e_orig |-> i]

\* Three ideas were returned after a merge, and the second sort moved an
\* idea: the list differs from the order the loop worked on.
C31_Witness ==
    /\ EnrichReturned
    /\ EnrichEnabled
    /\ Len(e_orig) = 3
    /\ MergedCandidates # {}
    /\ e_result.ideas # SortByRelevance([i \in DOMAIN e_orig |-> i], e_orig)

----------------------------------------------------------------------------
\* Properties of the enrichment loop taken in any order.

\* The reply candidate c received, or Unusable when it received none.
ReplyOf(c) ==
    IF \E k \in DOMAIN e_log : e_log[k].idea = c /\ e_log[k].kind = "reply"
    THEN e_log[CHOOSE k \in DOMAIN e_log :
                   e_log[k].idea = c /\ e_log[k].kind = "reply"].reply
    ELSE Unusable

\* The ideas after the loop of lines 103-125 has worked on the first n
\* selected candidates one after the other, in the order of the list, each
\* with the reply it received.
RECURSIVE InListOrder(_)
InListOrder(n) ==
    IF n = 0 THEN e_orig
    ELSE LET before == InListOrder(n - 1)
             order == SortByRelevance([i \in DOMAIN e_orig |-> i], e_orig)
             c == order[n]
         IN  IF assess(ReplyOf(c)) = NoAssessment THEN before
             ELSE [before EXCEPT ![c] = Merge(@, assess(ReplyOf(c)))]

\* C32: whatever the order in which the selected candidates are assessed
\* and merged, and however their steps interleave, the returned list holds
\* the ideas, with the fields and in the order, that working through the
\* candidates one by one in list order gives for the same replies.
C32_OrderIndependent ==
    (EnrichReturned /\ EnrichEnabled /\ e_orig # <<>>)
        => LET n == Min(assess_limit, Len(e_orig))
               order == SortByRelevance([i \in DOMAIN e_orig |-> i], e_orig)
           IN  /\ e_ideas = InListOrder(n)
               /\ e_result.ideas = SortByRelevance(order, InListOrder(n))

\* Two candidates of equal score were merged with the same reply, the
\* second of the list first.
C32_Witness ==
    /\ EnrichReturned
    /\ Cardinality(MergedCandidates) = 2
    /\ \E j, k \in DOMAIN e_log :
          /\ j < k
          /\ e_log[j].kind = "merged"
          /\ e_log[k].kind = "merged"
          /\ e_log[j].idea = e_sorted[2]
          /\ e_log[k].idea = e_sorted[1]
          /\ e_ideas[e_sorted[1]].relevance_score
                = e_ideas[e_sorted[2]].relevance_score

----------------------------------------------------------------------------
\* Properties of derive_problem_summary.

\* The sentences of the body that are not blank, stripped, in order.
RECURSIVE NonEmptySentences(_)
NonEmptySentences(sentences) ==
    IF sentences = <<>> THEN <<>>
    ELSE (IF strip(Head(sentences)) # <<>>
          THEN <<strip(Head(sentences))>> ELSE <<>>)
         \o NonEmptySentences(Tail(sentences))

\* C33: the summary is, cut to the limit, the first sentence of the body
\* that holds a pain signal; without one, the first non-empty sentence of
\* the body; and the title only when the body has no non-empty sentence.
C33_SummaryChoice ==
    summ.pc = "returned"
        => LET sentences ==
                   NonEmptySentences(
                       SplitSentences(summ.selftext, 1, <<>>, FALSE))
               pain == SelectSeq(sentences,
                                 LAMBDA s : _contains_any(lower(s),
                                                          PAIN_SIGNALS))
           IN  summ.result =
                   IF pain # <<>> THEN Cut(pain[1])
                   ELSE IF sentences # <<>> THEN Cut(sentences[1])
                   ELSE Cut(summ.title)

----------------------------------------------------------------------------
\* Properties of the posts and ideas tables across runs.

\* C34: whatever runs have been made (successful, failed or skipped), and
\* at every point inside a run, the post identifier of every row of the
\* ideas table is the key of a row of the posts table.
C34_IdeasHavePosts ==
    \A k \in DOMAIN ideas_tbl :
        /\ ideas_tbl[k].post_id = k
        /\ k \in DOMAIN posts_tbl
        /\ posts_tbl[k].post_id = k

\* A run wrote the post and failed before the idea was written; the retry
\* wrote the idea.
C34_Witness ==
    /\ Quiet
    /\ DOMAIN ideas_tbl # {}
    /\ \E i, j \in DOMAIN run_logs :
          /\ i < j
          /\ run_logs[i].status = "failed"
          /\ run_logs[i].message = ErrorMessage(StorageError)
          /\ run_logs[j].status = "success"
          /\ run_logs[j].extracted_ideas > 0

----------------------------------------------------------------------------
\* Properties of the store when posts are fetched again.

\* The persist step of a run, and its window query.
PersistStep == pc = "persist" /\ pc' = "report"
ReportStep == pc = "report" /\ pc' \in {"notify", "finish"}

\* C35: no step deletes a post or idea row; when a run fetches again a post
\* that has an idea and now scores below min_score, the post row is
\* overwritten with the new record and the idea row is left as it was; and
\* the window query of every run returns each stored idea created at or
\* after the run's floor.
C35_NoRowDeleted ==
    [][ /\ DOMAIN posts_tbl \subseteq DOMAIN posts_tbl'
        /\ DOMAIN ideas_tbl \subseteq DOMAIN ideas_tbl'
        /\ PersistStep
              => \A n \in DOMAIN local.posts :
                    LET p == local.posts[n]
                    IN  ( /\ score_post(p) < min_score
                          /\ p.post_id \in DOMAIN ideas_tbl )
                        => /\ ideas_tbl'[p.post_id] = ideas_tbl[p.post_id]
                           /\ posts_tbl'[p.post_id].score = p.score
                           /\ posts_tbl'[p.post_id].fetched_utc
                                 = local.started_utc
        /\ ReportStep
              => \A k \in DOMAIN ideas_tbl :
                    ideas_tbl[k].created_utc >= local.lookback_floor
                       => \E n \in DOMAIN local'.window_ideas :
                             local'.window_ideas[n].post_id = k ]_vars

\* A later run fetched the post again with a score below min_score and
\* extracted nothing; the idea of the earlier run is still stored and in
\* the run's window, and the post row holds the new score.
C35_Witness ==
    /\ pc \in {"notify", "finish"}
    /\ Len(local.posts) = 1
    /\ local.ideas = <<>>
    /\ Len(local.window_ideas) = 1
    /\ \E k \in DOMAIN ideas_tbl :
          /\ local.posts[1].post_id = k
          /\ local.window_ideas[1].post_id = k
          /\ posts_tbl[k].score < min_score
          /\ ideas_tbl[k].extracted_utc < posts_tbl[k].fetched_utc

----------------------------------------------------------------------------
\* Properties of the fetch floor.

\* C36: the floor F of every fetch of a run started at S lies between the
\* default floor and the start: S - L <= F <= S, L the lookback window.
C36_FloorWithinLookback ==
    \A k \in DOMAIN calls :
        /\ OwnRow.run_started_utc - lookback_seconds <= calls[k].since_utc
        /\ calls[k].since_utc <= OwnRow.run_started_utc

\* A run started later than one lookback window after time 0 fetches from
\* its own start time: a success run of its period finished in the tick in
\* which it started.
C36_Witness ==
    /\ calls # <<>>
    /\ calls[1].since_utc = OwnRow.run_started_utc
    /\ OwnRow.run_started_utc > lookback_seconds
    /\ \E i \in DOMAIN snap.run_logs :
          /\ snap.run_logs[i].status = "success"
          /\ snap.run_logs[i].period = OwnRow.period

----------------------------------------------------------------------------
\* Properties of the notified flag.

\* C37: the notified flag of a ledger row matches what was delivered: when
\* an invocation ends with its row closed 'failed', flag false, no channel
\* has delivered a message during that invocation.
C37_FailedMeansNothingDelivered ==
    (ReturnedFromRun /\ OwnRow.status = "failed")
        => /\ OwnRow.email_sent = FALSE
           /\ sent = <<>>

----------------------------------------------------------------------------
\* Properties of a run that fails after its persist step.

\* The handler runs for an error raised after upsert_ideas returned: by the
\* report or a notifier, or by the window query after ideas were written.
FailsAfterPersist ==
    /\ pc = "except"
    /\ pc' = "returned"
    /\ \/ exc \in {ReportError, NotifyError}
       \/ exc = StorageError /\ local.ideas # <<>>

\* What the failed run upserted is in the store when the handler is done,
\* and the run's row is closed 'failed' with zero counts.
NoRollBack ==
    /\ posts_tbl' = posts_tbl
    /\ ideas_tbl' = ideas_tbl
    /\ \A n \in DOMAIN local.posts :
          /\ local.posts[n].post_id \in DOMAIN posts_tbl'
          /\ posts_tbl'[local.posts[n].post_id].fetched_utc
                = local.started_utc
    /\ \A n \in DOMAIN local.ideas :
          /\ local.ideas[n].post_id \in DOMAIN ideas_tbl'
          /\ ideas_tbl'[local.ideas[n].post_id].extracted_utc
                = local.started_utc
    /\ run_logs'[local.run_id].status = "failed"
    /\ ZeroClosed(run_logs'[local.run_id])

\* The running invocation is the retry of a failed run: the row before its
\* own is 'failed', of its period, and the only one with its start time.
RetryOfFailed ==
    /\ snap # NoSnapshot
    /\ snap.run_logs # <<>>
    /\ LET j == Len(snap.run_logs)
       IN  /\ snap.run_logs[j].status = "failed"
           /\ snap.run_logs[j].period = local.period
           /\ \A i \in 1..(j - 1) :
                 snap.run_logs[i].run_started_utc
                    # snap.run_logs[j].run_started_utc

\* The ideas the failed run wrote, as the retry found them.
WrittenByFailed ==
    {k \in DOMAIN snap.ideas_tbl :
        snap.ideas_tbl[k].extracted_utc
            = snap.run_logs[Len(snap.run_logs)].run_started_utc}

InWindow(k, window) == \E n \in DOMAIN window : window[n].post_id = k

\* C38 as stated: a run that fails after its persist step rolls nothing
\* back, and the retry of the period has every idea the failed run wrote
\* in its reporting window.
C38_RetrySeesAll ==
    [][ /\ FailsAfterPersist => NoRollBack
        /\ (ReportStep /\ RetryOfFailed)
              => \A k \in WrittenByFailed :
                    InWindow(k, local'.window_ideas) ]_vars

\* C38 amended: a run that fails after its persist step rolls nothing back,
\* and the retry of the period has in its reporting window every idea the
\* failed run wrote that was created at or after the retry's floor.
C38_RetrySeesThoseSinceFloor ==
    [][ /\ FailsAfterPersist => NoRollBack
        /\ (ReportStep /\ RetryOfFailed)
              => \A k \in WrittenByFailed :
                    snap.ideas_tbl[k].created_utc >= local.lookback_floor
                       => InWindow(k, local'.window_ideas) ]_vars

\* The retry of a run that failed after writing an idea has made its
\* window query, and the idea is in the window.
C38_Witness ==
    /\ pc \in {"notify", "finish"}
    /\ RetryOfFailed
    /\ snap.run_logs[Len(snap.run_logs)].message.text
          \in {ReportError, NotifyError}
    /\ ZeroClosed(snap.run_logs[Len(snap.run_logs)])
    /\ WrittenByFailed # {}
    /\ \A k \in WrittenByFailed : InWindow(k, local.window_ideas)

----------------------------------------------------------------------------
\* Properties of the pagination loop.

\* C39: every pass of the pagination loop makes progress, so a call never
\* issues more than max(max_posts, 1) page requests, whatever pages the
\* source returns.
C39_PageRequestsBounded ==
    client.pc \in {"request", "returned", "raised"}
        => client.page <= normalized_max(client)

============================================================================
